---- MODULE Spec2Model ----
(***************************************************************************)
(* The alpha-cycle controller of hip_bench.go: the six AlphaCyc variants   *)
(* of Sim, stepped statement block by statement block, over the network    *)
(* that ConfigNet builds.                                                   *)
(*                                                                         *)
(* Conventions.                                                            *)
(*  - A pathway is the pair <<sender, receiver>> of its layer names.       *)
(*  - Weight scales are fixed-point numbers counted in tenths, so that the *)
(*    values of the program (0, 0.1, 0.5, 1, 4) are all integers here.     *)
(*  - Activations are opaque to the controller; a vector read with         *)
(*    UnitVals is represented by where and when it was read:               *)
(*    <<layer, Time.Cycle>>.                                               *)
(*  - A synapse's weight and its accumulated delta are represented by the  *)
(*    set of trials whose DWt pass contributed to them.                    *)
(*                                                                         *)
(* Two parts of the program are also specified on their own, over the      *)
(* variables ms and chl: Sim.MemStats (SpecMem) and the CHL learning rule  *)
(* of CHLParams and CHLPrjn on one synapse (SpecCHL).  There unit values   *)
(* are tenths (MemStats) or exact fractions (CHL); the rounding of the     *)
(* program's floating-point operations is not modelled.                    *)
(*                                                                         *)
(* Further specifications: CHLPrjn.SAvgCor over the ranges of its inputs   *)
(* (SpecCor); the toolbar handlers, the run methods and their goroutines   *)
(* over the variable sim (SpecRun); the alpha-cycles under the settings of *)
(* ViewOn, TrainUpdt and TestUpdt over the variable view (SpecView); the   *)
(* alpha-cycles over histories of three trials (SpecHistory); Train and    *)
(* the counters of the training environment, with weak fairness on the    *)
(* steps of its goroutine (SpecTrain).                                     *)
(***************************************************************************)
EXTENDS Integers, Sequences, FiniteSets, TLC

----------------------------------------------------------------------------
(* Bounds of the model *)

\* number of alpha-cycle calls in one behaviour
MaxTrials == 2
\* units of one pool of ECin and of Output (7 x 7 in the program)
PoolUnits == 1
\* number of MemStats calls in one behaviour
MaxMemCalls == 2
\* number of DWt passes over the CHL pathway, and of parameter sheets
\* applied to it, in one behaviour
MaxPasses == 1
MaxSheets == 1
\* goroutines that run methods of Sim at the same time
MaxGo == 2
\* alpha-cycle calls in one behaviour when the view settings vary
MaxViewTrials == 1
\* alpha-cycle calls in one behaviour when Learn flags change between trials
MaxHistory == 3
\* largest MaxRuns and MaxEpcs, and rows of the training table, when Train
\* runs on its own
MaxRunsTop == 2
MaxEpcsTop == 2
MaxRows == 2

----------------------------------------------------------------------------
(* Program constants *)

\* ss.Time.CycPerQtr, set by Sim.Defaults
CycPerQtr == 25
\* hp.MossyDel and hp.MossyDelTest, set by HipParams.Defaults
MossyDel == 4
MossyDelTest == 3
\* AlphaCycRP: the local CycPerQtr of quarters 1 and 2, and the cycle of
\* quarter 2 at which Autoin is clamped
RPCycQ1 == 25
RPCycQ2 == 100
RPClampCyc == 25
\* AlphaCycRPAE: the local CycPerQtr of quarters 1 and 2
RPAECycQ1 == 50
RPAECycQ2 == 75
\* hp.ECSize, set by HipParams.Defaults: the pools of ECin and of Output
ECSizeY == 2
ECSizeX == 3
\* MemStats: the number of pools its loop runs over (the 2 of 2*49), and
\* the threshold 0.5 of its comparisons, in tenths
MemStatsPools == 2
ActHalf == 5

\* fixed-point weight scales
Whole(n) == 10 * n
Tenths(n) == n

----------------------------------------------------------------------------
(* The network built by ConfigNet *)

Layers ==
    {"Input", "ECin", "ECout", "Auto", "Autoin", "Autohid",
     "CA1", "DG", "CA3", "Output", "Cortex"}

Prjns ==
    {<<"Input", "ECin">>, <<"ECout", "ECin">>, <<"ECout", "Output">>,
     <<"ECin", "CA1">>, <<"CA1", "ECout">>, <<"ECout", "CA1">>,
     <<"Autohid", "Auto">>, <<"Auto", "Autohid">>, <<"Autoin", "Autohid">>,
     <<"Input", "Cortex">>, <<"Cortex", "Output">>, <<"Output", "Cortex">>,
     <<"ECin", "DG">>, <<"ECin", "CA3">>, <<"CA3", "CA3">>,
     <<"CA3", "CA1">>, <<"DG", "CA3">>}

\* the local names the variants give to the pathways they look up
ca1FmECin == <<"ECin", "CA1">>
ca1FmCa3 == <<"CA3", "CA1">>
ca3FmDg == <<"DG", "CA3">>
outputFmCortex == <<"Cortex", "Output">>
ecoutFmCa1 == <<"CA1", "ECout">>
ca1FmECout == <<"ECout", "CA1">>
dgFmECin == <<"ECin", "DG">>
ca3FmECin == <<"ECin", "CA3">>
ca3FmCa3 == <<"CA3", "CA3">>
autohidFmAutoin == <<"Autoin", "Autohid">>
autoFmAutohid == <<"Autohid", "Auto">>
autohidFmAuto == <<"Auto", "Autohid">>
autohidFmECout == <<"ECout", "Autohid">>

\* Layer types given by ConfigNet (AddLayer4D / AddLayer2D)
ConfigTyp(l) ==
    IF l = "Input" THEN "Input"
    ELSE IF l \in {"ECout", "Auto", "Output"} THEN "Target"
    ELSE "Hidden"

\* ParamSets "Base": Prjn.Learn.Learn = false for these pathways
ParamLearnOff ==
    {<<"Input", "ECin">>, <<"ECout", "ECin">>, <<"ECout", "Output">>, <<"DG", "CA3">>}

\* ParamSets "Base": Prjn.WtScale.Abs / Prjn.WtScale.Rel (otherwise 1)
ParamAbs(p) == IF p = <<"CA1", "ECout">> THEN Whole(4) ELSE Whole(1)

ParamRel(p) ==
    IF p \in {<<"ECout", "ECin">>, <<"ECout", "Output">>} THEN Tenths(5)
    ELSE IF p = <<"DG", "CA3">> THEN Whole(4)
    ELSE IF p = <<"CA3", "CA3">> THEN Tenths(1)
    ELSE Whole(1)

Variants == {"AlphaCyc", "AlphaCycPreTrain", "AlphaCycRP", "AlphaCycRPAE",
             "AlphaCycRestudy", "AlphaCycAE"}

----------------------------------------------------------------------------
(* The statements each variant executes between its WtFmDWt and its call  *)
(* of Net.AlphaCycInit, in source order:                                   *)
(*   <<"Layer", l>>      ss.Net.LayerByName(l).(leabra.LeabraLayer)        *)
(*   <<"Prjn", p>>       recv.RcvPrjns.SendName(send).(leabra.LeabraPrjn)  *)
(*   <<"Learn", p, b>>   p.Learn.Learn = b                                 *)
(*   <<"Abs", p, v>>     p.WtScale.Abs = v                                 *)
(*   <<"Rel", p, v>>     p.WtScale.Rel = v                                 *)
(*   <<"Off", l, b>>     l.Off = b                                         *)
(*   <<"DgRead">>        dgwtscale := ca3FmDg.WtScale.Rel                  *)
(*   <<"DgSet">>         ca3FmDg.WtScale.Rel = dgwtscale - ss.Hip.MossyDel *)
(*   <<"Type", l, t>>    l.SetType(t); l.UpdateExtFlags()                  *)
(***************************************************************************)

\* the type AlphaCyc gives the Output layer
AlphaCycOutputTyp(tr) == "Target"

SetupAlphaCyc(tr, hiponly) ==
    << <<"Layer", "CA1">>, <<"Layer", "CA3">>, <<"Layer", "Input">>,
       <<"Layer", "Output">>, <<"Layer", "ECin">>, <<"Layer", "ECout">>,
       <<"Layer", "Cortex">>,
       <<"Prjn", ca1FmECin>>, <<"Prjn", ca1FmCa3>>, <<"Prjn", ca3FmDg>>,
       <<"Prjn", outputFmCortex>>, <<"Prjn", ecoutFmCa1>>, <<"Prjn", ca1FmECout>>,
       <<"Learn", ecoutFmCa1, TRUE>>, <<"Learn", ca1FmECin, TRUE>>,
       <<"Learn", ca1FmECout, TRUE>>,
       <<"Layer", "DG">>, <<"Prjn", dgFmECin>>, <<"Prjn", ca3FmECin>>,
       <<"Learn", dgFmECin, TRUE>>, <<"Learn", ca3FmECin, TRUE>>,
       <<"Learn", ca3FmDg, TRUE>>, <<"Learn", ca1FmCa3, TRUE>>,
       <<"Prjn", ca3FmCa3>>, <<"Learn", ca3FmCa3, TRUE>>,
       <<"Layer", "Autohid">>, <<"Layer", "Auto">>,
       <<"Prjn", autohidFmAutoin>>, <<"Prjn", autoFmAutohid>>, <<"Prjn", autohidFmAuto>>,
       <<"Learn", autohidFmAutoin, FALSE>>, <<"Learn", autoFmAutohid, FALSE>>,
       <<"Learn", autohidFmAuto, FALSE>>,
       <<"Abs", ca1FmECin, Whole(1)>>, <<"Abs", ca1FmCa3, Whole(0)>>,
       <<"Rel", outputFmCortex, IF hiponly THEN Whole(0) ELSE Tenths(5)>>,
       <<"Off", "CA1", FALSE>>, <<"Off", "CA3", FALSE>>, <<"Off", "DG", FALSE>>,
       <<"Off", "ECin", FALSE>>, <<"Off", "Cortex", FALSE>>,
       <<"DgRead">>, <<"DgSet">>,
       <<"Type", "ECout", IF tr THEN "Target" ELSE "Compare">>,
       <<"Type", "Output", AlphaCycOutputTyp(tr)>> >>

SetupPreTrain(tr) ==
    << <<"Layer", "CA1">>, <<"Layer", "CA3">>, <<"Layer", "Input">>,
       <<"Layer", "ECin">>, <<"Layer", "ECout">>, <<"Layer", "Cortex">>,
       <<"Prjn", ca1FmECin>>, <<"Prjn", ca1FmCa3>>, <<"Prjn", ca3FmDg>>,
       <<"Prjn", ecoutFmCa1>>, <<"Prjn", ca1FmECout>>,
       <<"Learn", ecoutFmCa1, TRUE>>, <<"Learn", ca1FmECin, TRUE>>,
       <<"Learn", ca1FmECout, TRUE>>,
       <<"Layer", "DG">>, <<"Prjn", dgFmECin>>, <<"Prjn", ca3FmECin>>,
       <<"Learn", dgFmECin, TRUE>>, <<"Learn", ca3FmECin, TRUE>>,
       <<"Abs", ca1FmECin, Whole(1)>>, <<"Abs", ca1FmCa3, Whole(0)>>,
       <<"Learn", ca3FmDg, TRUE>>, <<"Learn", ca1FmCa3, TRUE>>,
       <<"Prjn", ca3FmCa3>>, <<"Learn", ca3FmCa3, TRUE>>,
       <<"Off", "CA1", FALSE>>, <<"Off", "CA3", TRUE>>, <<"Off", "DG", TRUE>>,
       <<"Off", "ECin", FALSE>>, <<"Off", "Cortex", TRUE>>,
       <<"DgRead">>, <<"DgSet">>,
       <<"Type", "ECout", IF tr THEN "Target" ELSE "Compare">> >>

SetupRP(tr) ==
    << <<"Layer", "CA1">>, <<"Layer", "CA3">>, <<"Layer", "Input">>,
       <<"Layer", "Output">>, <<"Layer", "Autoin">>, <<"Layer", "ECin">>,
       <<"Layer", "ECout">>,
       <<"Prjn", ca1FmECin>>, <<"Prjn", ca1FmCa3>>, <<"Prjn", ca3FmDg>>,
       <<"Prjn", ecoutFmCa1>>, <<"Prjn", ca1FmECout>>,
       <<"Learn", ecoutFmCa1, FALSE>>, <<"Learn", ca1FmECin, FALSE>>,
       <<"Learn", ca1FmECout, FALSE>>,
       <<"Layer", "DG">>, <<"Prjn", dgFmECin>>, <<"Prjn", ca3FmECin>>,
       <<"Learn", dgFmECin, TRUE>>, <<"Learn", ca3FmECin, TRUE>>,
       <<"Learn", ca3FmDg, TRUE>>, <<"Learn", ca1FmCa3, TRUE>>,
       <<"Prjn", ca3FmCa3>>, <<"Learn", ca3FmCa3, TRUE>>,
       <<"Layer", "Autohid">>, <<"Layer", "Auto">>,
       <<"Prjn", autohidFmAutoin>>, <<"Prjn", autoFmAutohid>>, <<"Prjn", autohidFmAuto>>,
       <<"Learn", autohidFmAutoin, FALSE>>, <<"Learn", autoFmAutohid, FALSE>>,
       <<"Learn", autohidFmAuto, FALSE>>,
       <<"Abs", ca1FmECin, Whole(1)>>, <<"Abs", ca1FmCa3, Whole(0)>>,
       <<"Abs", autohidFmAutoin, Whole(1)>>,
       <<"Layer", "Cortex">>,
       <<"Off", "CA1", FALSE>>, <<"Off", "CA3", FALSE>>, <<"Off", "DG", FALSE>>,
       <<"Off", "ECin", FALSE>>, <<"Off", "Cortex", FALSE>>,
       <<"DgRead">>, <<"DgSet">>,
       <<"Type", "ECout", IF tr THEN "Target" ELSE "Compare">>,
       <<"Type", "Output", IF tr THEN "Target" ELSE "Compare">> >>

SetupRPAE(tr) ==
    << <<"Layer", "CA1">>, <<"Layer", "CA3">>, <<"Layer", "Input">>,
       <<"Layer", "Output">>, <<"Layer", "ECin">>, <<"Layer", "ECout">>,
       <<"Prjn", ca1FmECin>>, <<"Prjn", ca1FmCa3>>, <<"Prjn", ca3FmDg>>,
       <<"Prjn", ecoutFmCa1>>, <<"Prjn", ca1FmECout>>,
       <<"Learn", ecoutFmCa1, FALSE>>, <<"Learn", ca1FmECin, FALSE>>,
       <<"Learn", ca1FmECout, FALSE>>,
       <<"Layer", "DG">>, <<"Prjn", dgFmECin>>, <<"Prjn", ca3FmECin>>,
       <<"Learn", dgFmECin, FALSE>>, <<"Learn", ca3FmECin, FALSE>>,
       <<"Learn", ca3FmDg, FALSE>>, <<"Learn", ca1FmCa3, FALSE>>,
       <<"Prjn", ca3FmCa3>>, <<"Learn", ca3FmCa3, FALSE>>,
       <<"Layer", "Autohid">>, <<"Layer", "Auto">>,
       <<"Prjn", autohidFmECout>>, <<"Prjn", autoFmAutohid>>, <<"Prjn", autohidFmAuto>>,
       <<"Learn", autohidFmECout, TRUE>>, <<"Learn", autoFmAutohid, TRUE>>,
       <<"Learn", autohidFmAuto, TRUE>>,
       <<"Abs", ca1FmECin, Whole(1)>>, <<"Abs", ca1FmCa3, Whole(0)>>,
       <<"Abs", autohidFmECout, Whole(0)>>,
       <<"Layer", "Cortex">>,
       <<"Off", "CA1", FALSE>>, <<"Off", "CA3", FALSE>>, <<"Off", "DG", FALSE>>,
       <<"Off", "ECin", FALSE>>, <<"Off", "Cortex", FALSE>>,
       <<"DgRead">>, <<"DgSet">>,
       <<"Type", "ECout", "Compare">>, <<"Type", "Output", "Compare">> >>

SetupRestudy(tr) ==
    << <<"Layer", "CA1">>, <<"Layer", "CA3">>, <<"Layer", "Input">>,
       <<"Layer", "ECin">>, <<"Layer", "ECout">>,
       <<"Prjn", ca1FmECin>>, <<"Prjn", ca1FmCa3>>, <<"Prjn", ca3FmDg>>,
       <<"Prjn", ecoutFmCa1>>, <<"Prjn", ca1FmECout>>,
       <<"Learn", ecoutFmCa1, FALSE>>, <<"Learn", ca1FmECin, FALSE>>,
       <<"Learn", ca1FmECout, FALSE>>,
       <<"Layer", "DG">>, <<"Prjn", dgFmECin>>, <<"Prjn", ca3FmECin>>,
       <<"Learn", dgFmECin, TRUE>>, <<"Learn", ca3FmECin, TRUE>>,
       <<"Learn", ca3FmDg, TRUE>>, <<"Learn", ca1FmCa3, TRUE>>,
       <<"Prjn", ca3FmCa3>>, <<"Learn", ca3FmCa3, TRUE>>,
       <<"Abs", ca1FmECin, Whole(1)>>, <<"Abs", ca1FmCa3, Whole(0)>>,
       <<"Layer", "Autoencoder">>, <<"Layer", "Cortex">>,
       <<"Off", "CA1", FALSE>>, <<"Off", "CA3", FALSE>>, <<"Off", "DG", FALSE>>,
       <<"Off", "ECin", FALSE>>, <<"Off", "Autoencoder", TRUE>>,
       <<"Off", "Cortex", TRUE>>,
       <<"DgRead">>, <<"DgSet">>,
       <<"Type", "ECout", IF tr THEN "Target" ELSE "Compare">> >>

SetupAE(tr) ==
    << <<"Layer", "CA1">>, <<"Layer", "CA3">>, <<"Layer", "Input">>,
       <<"Layer", "ECin">>, <<"Layer", "ECout">>, <<"Layer", "Cortex">>,
       <<"Prjn", ca1FmECin>>, <<"Prjn", ca1FmCa3>>, <<"Prjn", ca3FmDg>>,
       <<"Prjn", ecoutFmCa1>>, <<"Prjn", ca1FmECout>>,
       <<"Learn", ecoutFmCa1, FALSE>>, <<"Learn", ca1FmECin, FALSE>>,
       <<"Learn", ca1FmECout, FALSE>>,
       <<"Layer", "DG">>, <<"Prjn", dgFmECin>>, <<"Prjn", ca3FmECin>>,
       <<"Learn", dgFmECin, FALSE>>, <<"Learn", ca3FmECin, FALSE>>,
       <<"Learn", ca3FmDg, FALSE>>, <<"Learn", ca1FmCa3, FALSE>>,
       <<"Prjn", ca3FmCa3>>, <<"Learn", ca3FmCa3, FALSE>>,
       <<"Layer", "Autohid">>, <<"Layer", "Auto">>,
       <<"Prjn", autohidFmAutoin>>, <<"Prjn", autoFmAutohid>>, <<"Prjn", autohidFmAuto>>,
       <<"Learn", autohidFmAutoin, TRUE>>, <<"Learn", autoFmAutohid, TRUE>>,
       <<"Learn", autohidFmAuto, TRUE>>,
       <<"Off", "CA1", TRUE>>, <<"Off", "CA3", TRUE>>, <<"Off", "DG", TRUE>>,
       <<"Off", "ECin", TRUE>>, <<"Off", "Cortex", TRUE>>,
       <<"Off", "Autohid", FALSE>>, <<"Off", "Auto", FALSE>>,
       <<"Off", "ECout", FALSE>> >>

SetupOf(v, tr, hiponly) ==
    CASE v = "AlphaCyc" -> SetupAlphaCyc(tr, hiponly)
      [] v = "AlphaCycPreTrain" -> SetupPreTrain(tr)
      [] v = "AlphaCycRP" -> SetupRP(tr)
      [] v = "AlphaCycRPAE" -> SetupRPAE(tr)
      [] v = "AlphaCycRestudy" -> SetupRestudy(tr)
      [] v = "AlphaCycAE" -> SetupAE(tr)

\* A lookup by name: LayerByName / SendName return nil for a name the network
\* does not have, and the unchecked type assertion on nil panics.
LookupOk(s) ==
    CASE s[1] = "Layer" -> s[2] \in Layers
      [] s[1] = "Prjn" -> s[2] \in Prjns
      [] OTHER -> TRUE

\* One statement, on the network state st =
\* [learn, off, wtScale, layTyp, dgwtscale, dirty, ok]
ExecStmt(s, st) ==
    CASE s[1] \in {"Layer", "Prjn"} -> [st EXCEPT !.ok = LookupOk(s)]
      [] s[1] = "Learn" -> [st EXCEPT !.learn[s[2]] = s[3]]
      [] s[1] = "Abs" -> [st EXCEPT !.wtScale[s[2]].Abs = s[3], !.dirty = TRUE]
      [] s[1] = "Rel" -> [st EXCEPT !.wtScale[s[2]].Rel = s[3], !.dirty = TRUE]
      [] s[1] = "Off" -> [st EXCEPT !.off[s[2]] = s[3]]
      [] s[1] = "DgRead" -> [st EXCEPT !.dgwtscale = st.wtScale[ca3FmDg].Rel]
      [] s[1] = "DgSet" ->
            [st EXCEPT !.wtScale[ca3FmDg].Rel = st.dgwtscale - Whole(MossyDel),
                       !.dirty = TRUE]
      [] s[1] = "Type" -> [st EXCEPT !.layTyp[s[2]] = s[3]]

\* a setup that went on after a lookup that failed
RunSetupUnchecked(stmts, i, st) == st

\* The statements from the i-th on, stopping at the first lookup that fails
RECURSIVE RunSetup(_, _, _)
RunSetup(stmts, i, st) ==
    IF i > Len(stmts) \/ ~st.ok THEN st
    ELSE RunSetup(stmts, i + 1, ExecStmt(stmts[i], st))

----------------------------------------------------------------------------
(* State *)

VARIABLES
    pc,          \* position of the running alpha-cycle; "idle" between calls
    variant,     \* the variant that was called
    train,       \* its train argument
    qtr,         \* loop variable qtr
    cyc,         \* loop variable cyc
    cycPerQtr,   \* the loop bound of the current quarter (local CycPerQtr)
    dgwtscale,   \* local dgwtscale
    timeCycle,   \* ss.Time.Cycle
    timeQuarter, \* ss.Time.Quarter
    Hiponly,     \* ss.Hiponly
    wtScale,     \* pathway -> [Abs, Rel]
    gscale,      \* the weight scales the cached scaling factors were computed from
    dirty,       \* a weight scale was assigned since the last recomputation
    learn,       \* pathway -> Learn.Learn
    off,         \* layer -> Off
    layTyp,      \* layer -> type
    ext,         \* layer -> the vector last applied with ApplyExt1D32 (<<>>: none)
    TmpVals,     \* ss.TmpVals
    wt,          \* pathway -> trials whose deltas are part of the weights
    dwt,         \* pathway -> trials whose deltas are accumulated in DWt
    trialNo,     \* number of alpha-cycle calls so far
    pre,         \* wtScale, wt, dwt and ext as they were when the running trial was called
    cnt,         \* what the running trial has executed so far
    ms,          \* the units MemStats reads and the statistics fields of Sim it writes
    chl,         \* one CHLPrjn: its parameters, its layers' averages and one synapse
    sim,         \* ss.IsRunning, ss.StopNow, the GUI thread and the run goroutines
    view         \* ss.ViewOn, ss.TrainUpdt, ss.TestUpdt, and the same run with other settings

ctl == <<pc, variant, train, qtr, cyc, cycPerQtr, dgwtscale, timeCycle, timeQuarter>>
net == <<wtScale, gscale, dirty, learn, off, layTyp, ext, TmpVals, wt, dwt>>
env == <<Hiponly, ms, chl, sim, view>>
vars == <<ctl, net, env, trialNo, pre, cnt>>

----------------------------------------------------------------------------
(* Numbers *)

\* A rate or an activation is an exact fraction <<n, d>> in lowest terms
\* with d > 0.  <<0, 0>> is NaN, the value of 0/0.
RECURSIVE GCD(_, _)
GCD(a, b) == IF b = 0 THEN a ELSE GCD(b, a % b)

AbsInt(x) == IF x < 0 THEN -x ELSE x

\* n / d
Rat(n, d) ==
    IF d = 0 THEN <<0, 0>>
    ELSE LET g == GCD(AbsInt(n), AbsInt(d))
             sg == IF d < 0 THEN -1 ELSE 1
         IN  <<(sg * n) \div g, (sg * d) \div g>>

IsNaN(x) == x[2] = 0

RLessOrEqual(x, y) == ~IsNaN(x) /\ ~IsNaN(y) /\ x[1] * y[2] <= y[1] * x[2]

\* x < y of two floating-point values: false when either is NaN
RLess(x, y) == ~IsNaN(x) /\ ~IsNaN(y) /\ x[1] * y[2] < y[1] * x[2]

----------------------------------------------------------------------------
(* Sim.MemStats *)

\* units of the Output layer, and of ECin, which has the same shape
OutputUnits == ECSizeY * ECSizeX * PoolUnits
\* the bound of the loop of MemStats
MemStatsLen == MemStatsPools * PoolUnits

\* the values of one unit that MemStats reads, in tenths: ActM and Targ of
\* the Output unit, ActQ1 of the ECin unit with the same index
UnitKinds == [actm : {4, 5, 6}, trg : {4, 5}, inact : {4, 5}]

\* the local counters of MemStats
NoCounts ==
    [trgOnWasOffAll |-> 0, trgOnWasOffCmp |-> 0, trgOffWasOn |-> 0,
     cmpN |-> 0, trgOnN |-> 0, trgOffN |-> 0]

\* the body of the loop, for one unit
CountUnit(c, u) ==
    IF u.trg < ActHalf
    THEN [c EXCEPT !.trgOffN = @ + 1,
                   !.trgOffWasOn = IF u.actm > ActHalf THEN @ + 1 ELSE @]
    ELSE IF u.inact < ActHalf
    THEN [c EXCEPT !.trgOnN = @ + 1,
                   !.cmpN = @ + 1,
                   !.trgOnWasOffAll = IF u.actm < ActHalf THEN @ + 1 ELSE @,
                   !.trgOnWasOffCmp = IF u.actm < ActHalf THEN @ + 1 ELSE @]
    ELSE [c EXCEPT !.trgOnN = @ + 1,
                   !.trgOnWasOffAll = IF u.actm < ActHalf THEN @ + 1 ELSE @]

\* the loop over the units ni < n (unit ni of the program is units[ni + 1])
RECURSIVE CountUnits(_, _)
CountUnits(units, n) ==
    IF n = 0 THEN NoCounts ELSE CountUnit(CountUnits(units, n - 1), units[n])

\* the training branch
TrainMem(all, offOn, thr) ==
    IF RLess(all, thr) /\ RLess(offOn, thr) THEN 1 ELSE 0

TestMemReset(cmpN, cmp, offOn, thr, mem) ==
    IF cmpN > 0 /\ RLess(cmp, thr) /\ RLess(offOn, thr) THEN 1 ELSE 0

\* the test branch
TestMem(cmpN, cmp, offOn, thr, mem) ==
    IF cmpN > 0
    THEN IF RLess(cmp, thr) /\ RLess(offOn, thr) THEN 1 ELSE 0
    ELSE mem

\* MemStats(train), on the fields of ms; calls, train, prev and counts
\* record the call for the properties
MemStats(s, tr) ==
    LET c == CountUnits(s.units, MemStatsLen)
        all == Rat(c.trgOnWasOffAll, c.trgOnN)
        offOn == Rat(c.trgOffWasOn, c.trgOffN)
        cmp == IF ~tr /\ c.cmpN > 0 THEN Rat(c.trgOnWasOffCmp, c.cmpN)
               ELSE Rat(c.trgOnWasOffCmp, 1)
    IN  [s EXCEPT !.Mem = IF tr THEN TrainMem(all, offOn, s.MemThr)
                          ELSE TestMem(c.cmpN, cmp, offOn, s.MemThr, s.Mem),
                  !.TrgOnWasOffAll = all,
                  !.TrgOnWasOffCmp = cmp,
                  !.TrgOffWasOn = offOn,
                  !.calls = @ + 1,
                  !.train = tr,
                  !.prev = [Mem |-> s.Mem, TrgOnWasOffAll |-> s.TrgOnWasOffAll,
                            TrgOnWasOffCmp |-> s.TrgOnWasOffCmp,
                            TrgOffWasOn |-> s.TrgOffWasOn],
                  !.counts = c]

\* the fields of a Sim on which MemStats has not run, over the units us
NewStats(us, thr, mem) ==
    [units |-> us, MemThr |-> thr, Mem |-> mem,
     TrgOnWasOffAll |-> Rat(0, 1), TrgOnWasOffCmp |-> Rat(0, 1),
     TrgOffWasOn |-> Rat(0, 1),
     calls |-> 0, train |-> FALSE,
     prev |-> [Mem |-> mem, TrgOnWasOffAll |-> Rat(0, 1),
               TrgOnWasOffCmp |-> Rat(0, 1), TrgOffWasOn |-> Rat(0, 1)],
     counts |-> NoCounts]

\* the unit that MemStats does not reach: a target bit that is not recalled
UnreadUnit == [actm |-> 4, trg |-> 6, inact |-> 4]

MsIdle ==
    NewStats([i \in 1..OutputUnits |-> UnreadUnit], Rat(34, 100), 0)

----------------------------------------------------------------------------
(* Arithmetic on fractions; sums and products are reduced before they are *)
(* multiplied out                                                          *)

RZero == <<0, 1>>
ROne == <<1, 1>>

RAdd(x, y) ==
    LET g == GCD(x[2], y[2])
    IN  Rat(x[1] * (y[2] \div g) + y[1] * (x[2] \div g), (x[2] \div g) * y[2])

RNeg(x) == <<-x[1], x[2]>>
RSub(x, y) == RAdd(x, RNeg(y))

RMul(x, y) ==
    LET g1 == GCD(AbsInt(x[1]), y[2])
        g2 == GCD(AbsInt(y[1]), x[2])
    IN  Rat((x[1] \div g1) * (y[1] \div g2), (x[2] \div g2) * (y[2] \div g1))

\* the value of x / 0: an infinity <<1, 0>> or <<-1, 0>>, or NaN
RInf(x) == IF x[1] > 0 THEN <<1, 0>> ELSE IF x[1] < 0 THEN <<-1, 0>> ELSE <<0, 0>>

\* x / y
RQuo(x, y) ==
    IF y[1] = 0 THEN RInf(x)
    ELSE RMul(x, IF y[1] < 0 THEN <<-y[2], -y[1]>> ELSE <<y[2], y[1]>>)

RLt(x, y) ==
    LET g == GCD(x[2], y[2])
    IN  x[1] * (y[2] \div g) < y[1] * (x[2] \div g)

RMax(x, y) == IF RLt(x, y) THEN y ELSE x
RClip(x) == IF RLt(x, RZero) THEN RZero ELSE IF RLt(ROne, x) THEN ROne ELSE x
RAbs(x) == <<AbsInt(x[1]), x[2]>>

----------------------------------------------------------------------------
(* CHLParams *)

UpdateErrDefault(ch) == [ch EXCEPT !.Err = Rat(999, 1000)]

\* CHLParams.Update
Update(ch) == [ch EXCEPT !.Err = RSub(ROne, ch.Hebb)]

\* CHLParams.Defaults, on any value of the struct
Defaults(ch) ==
    Update([ch EXCEPT !.On = TRUE, !.Hebb = Rat(1, 1000),
                      !.SAvgCor = Rat(4, 10), !.SAvgThr = Rat(1, 1000)])

MinusActNoQ2(ch, actM, actQ1, actQ2) == IF ch.MinusQ1 THEN actQ1 ELSE actM

\* CHLParams.MinusAct
MinusAct(ch, actM, actQ1, actQ2) ==
    IF ch.MinusQ1 THEN actQ1
    ELSE IF ch.MinusQ2 THEN actQ2
    ELSE actM

\* CHLParams.HebbDWt
HebbDWt(sact, ract, savgCor, linWt) ==
    RMul(ract, RSub(RMul(sact, RSub(savgCor, linWt)),
                    RMul(RSub(ROne, sact), linWt)))

\* an error term without the soft weight bounding
ErrDWtUnbounded(sactP, sactM, ractP, ractM, linWt) ==
    RSub(RMul(ractP, sactP), RMul(ractM, sactM))

\* CHLParams.ErrDWt
ErrDWt(sactP, sactM, ractP, ractM, linWt) ==
    LET err == RSub(RMul(ractP, sactP), RMul(ractM, sactM))
    IN  IF RLt(RZero, err) THEN RMul(err, RSub(ROne, linWt))
        ELSE RMul(err, linWt)

\* CHLParams.DWt
CHLParamsDWt(ch, hebb, err) == RAdd(RMul(ch.Hebb, hebb), RMul(ch.Err, err))

----------------------------------------------------------------------------
(* CHLPrjn: the struct pj holds the CHL parameters, the fields of          *)
(* Prjn.Learn that the rule reads, the sending and the receiving unit of   *)
(* one synapse, the averages of the sending layer, and the synapse sy      *)

\* the zero value of the struct, before Defaults
ZeroCHL ==
    [On |-> FALSE, Hebb |-> RZero, Err |-> RZero, MinusQ1 |-> FALSE,
     MinusQ2 |-> FALSE, SAvgCor |-> RZero, SAvgThr |-> RZero]

\* CHLPrjn.Defaults: Prjn.Defaults leaves Learn on with the rate 0.04 and
\* soft bounding on
CHLPrjnDefaults(pj) ==
    [pj EXCEPT !.CHL = Defaults(pj.CHL),
               !.Learn = TRUE, !.Lrate = Rat(4, 100), !.SoftBound = TRUE,
               !.NormOn = FALSE, !.MomentumOn = FALSE]

UpdateParamsNoUpdate(pj) ==
    [pj EXCEPT !.SoftBound = IF pj.CHL.On THEN FALSE ELSE @]

\* CHLPrjn.UpdateParams
UpdateParams(pj) ==
    [pj EXCEPT !.CHL = Update(pj.CHL),
               !.SoftBound = IF pj.CHL.On THEN FALSE ELSE @]

\* one entry of a params.Params map, set by path
SetParam(pj, path, val) ==
    CASE path = "Prjn.CHL.On" -> [pj EXCEPT !.CHL.On = val]
      [] path = "Prjn.CHL.Hebb" -> [pj EXCEPT !.CHL.Hebb = val]
      [] path = "Prjn.CHL.Err" -> [pj EXCEPT !.CHL.Err = val]
      [] path = "Prjn.CHL.SAvgCor" -> [pj EXCEPT !.CHL.SAvgCor = val]
      [] path = "Prjn.CHL.MinusQ1" -> [pj EXCEPT !.CHL.MinusQ1 = val]
      [] path = "Prjn.CHL.MinusQ2" -> [pj EXCEPT !.CHL.MinusQ2 = val]
      [] path = "Prjn.Learn.Lrate" -> [pj EXCEPT !.Lrate = val]
      [] path = "Prjn.Learn.Momentum.On" -> [pj EXCEPT !.MomentumOn = val]
      [] path = "Prjn.Learn.Norm.On" -> [pj EXCEPT !.NormOn = val]
      [] OTHER -> pj

RECURSIVE SetParams(_, _)
SetParams(pj, sheet) ==
    IF sheet = << >> THEN pj
    ELSE SetParams(SetParam(pj, sheet[1][1], sheet[1][2]), Tail(sheet))

\* Prjn.ApplyParams of the engine: the entries are set, then UpdateParams
\* of the pathway is called
ApplyParams(pj, sheet) == UpdateParams(SetParams(pj, sheet))

\* the sheets of ParamSets that select a CHL pathway
SheetPrjn ==
    << <<"Prjn.Learn.Momentum.On", TRUE>>, <<"Prjn.Learn.Norm.On", TRUE>>,
       <<"Prjn.Learn.WtBal.On", FALSE>> >>
SheetHippoCHL ==
    << <<"Prjn.CHL.Hebb", Rat(1, 100)>>, <<"Prjn.Learn.Lrate", Rat(1, 10)>>,
       <<"Prjn.Learn.Momentum.On", FALSE>>, <<"Prjn.Learn.Norm.On", FALSE>>,
       <<"Prjn.Learn.WtBal.On", TRUE>> >>
SheetECinToDG ==
    << <<"Prjn.CHL.Hebb", Rat(2, 10)>>, <<"Prjn.CHL.SAvgCor", Rat(1, 10)>>,
       <<"Prjn.CHL.MinusQ1", TRUE>>, <<"Prjn.Learn.Lrate", Rat(1, 10)>>,
       <<"Prjn.Learn.Momentum.On", FALSE>>, <<"Prjn.Learn.Norm.On", FALSE>>,
       <<"Prjn.Learn.WtBal.On", TRUE>> >>
SheetCA3ToCA1 ==
    << <<"Prjn.CHL.Hebb", Rat(1, 100)>>, <<"Prjn.CHL.SAvgCor", Rat(4, 10)>>,
       <<"Prjn.Learn.Lrate", Rat(5, 100)>>,
       <<"Prjn.Learn.Momentum.On", FALSE>>, <<"Prjn.Learn.Norm.On", FALSE>>,
       <<"Prjn.Learn.WtBal.On", TRUE>> >>
SheetRP == << <<"Prjn.CHL.MinusQ2", TRUE>> >>

\* sheets a user may add: the ends of the range of Hebb, a value for Err,
\* the standard rule instead of CHL
UserSheets ==
    { << <<"Prjn.CHL.Hebb", RZero>> >>, << <<"Prjn.CHL.Hebb", ROne>> >>,
      << <<"Prjn.CHL.Err", Rat(1, 2)>> >>, << <<"Prjn.CHL.On", FALSE>> >> }

\* the sheets applied after ConfigNet; no sheet of ParamSets turns
\* normalization or momentum on for a CHL pathway
Sheets == {SheetECinToDG, SheetCA3ToCA1, SheetRP} \cup UserSheets

\* the `inactive, no learn` test of DWtCHL
InactiveOrAtThr(pj) == ~RLt(pj.CHL.SAvgThr, pj.ActPAvg)

Inactive(pj) == RLt(pj.ActPAvg, pj.CHL.SAvgThr)

\* CHLPrjn.SAvgCor
SAvgCor(pj) ==
    LET savg == RAdd(Rat(1, 2),
                     RMul(pj.CHL.SAvgCor, RSub(pj.ActPAvgEff, Rat(1, 2))))
    IN  RQuo(Rat(1, 2), RMax(pj.CHL.SAvgThr, savg))

\* DWtNormParams.NormFmAbsDWt and MomentumParams.MomentFmDWt of the engine,
\* with its default parameters: the new accumulator and the returned value
NormFmAbsDWt(norm, absDwt) ==
    LET n == RMax(RMul(Rat(999, 1000), norm), absDwt)
    IN  [acc |-> n,
         ret |-> IF n = RZero THEN ROne
                 ELSE RQuo(Rat(15, 100), RMax(n, Rat(1, 1000)))]

MomentFmDWt(moment, dw) ==
    LET m == RAdd(RMul(Rat(9, 10), moment), dw)
    IN  [acc |-> m, ret |-> RMul(Rat(1, 10), m)]

\* the body of the loops of DWtCHL for the synapse sy; with one synapse
\* per sending unit the aggregated maximum of Norm is its own Norm
DWtSyn(pj) ==
    LET sy == pj.sy
        sn == pj.sn
        rn == pj.rn
        snActM == MinusAct(pj.CHL, sn.ActM, sn.ActQ1, sn.ActQ2)
        savgCor == SAvgCor(pj)
        rnActM == MinusAct(pj.CHL, rn.ActM, rn.ActQ1, rn.ActQ2)
        hebb == HebbDWt(sn.ActP, rn.ActP, savgCor, sy.LWt)
        err == ErrDWt(sn.ActP, snActM, rn.ActP, rnActM, sy.LWt)
        dwt0 == CHLParamsDWt(pj.CHL, hebb, err)
        nrm == IF pj.NormOn THEN NormFmAbsDWt(sy.Norm, RAbs(dwt0))
               ELSE [acc |-> sy.Norm, ret |-> ROne]
        mom == IF pj.MomentumOn THEN MomentFmDWt(sy.Moment, dwt0)
               ELSE [acc |-> sy.Moment, ret |-> dwt0]
        dwtN == RMul(nrm.ret, mom.ret)
    IN  [sy EXCEPT !.Norm = nrm.acc,
                   !.Moment = mom.acc,
                   !.DWt = RAdd(@, RMul(pj.Lrate, dwtN))]

\* CHLPrjn.DWtCHL
DWtCHL(pj) == IF Inactive(pj) THEN pj ELSE [pj EXCEPT !.sy = DWtSyn(pj)]

PrjnDWtUngated(pj, xcal) ==
    IF pj.CHL.On THEN DWtCHL(pj) ELSE [pj EXCEPT !.sy.DWt = RAdd(@, xcal)]

\* CHLPrjn.DWt; the standard rule of Prjn.DWt is the engine's, its delta
\* for the synapse is the input xcal
PrjnDWt(pj, xcal) ==
    IF ~pj.Learn THEN pj
    ELSE IF pj.CHL.On THEN DWtCHL(pj)
    ELSE [pj EXCEPT !.sy.DWt = RAdd(@, xcal)]

PrjnWtFmDWtUnclamped(pj, wb) ==
    IF ~pj.Learn \/ pj.sy.DWt = RZero THEN pj
    ELSE [pj EXCEPT !.sy.LWt = RAdd(@, RMul(wb, pj.sy.DWt)), !.sy.DWt = RZero]

\* Prjn.WtFmDWt of the engine for the synapse, wb the weight-balance
\* factor of its receiving unit: the delta is scaled (by the room left, if
\* soft bounding is on), added, the linear weight is clamped to [0, 1], and
\* the delta is cleared
PrjnWtFmDWt(pj, wb) ==
    IF ~pj.Learn \/ pj.sy.DWt = RZero THEN pj
    ELSE LET d0 == pj.sy.DWt
             room == IF ~pj.SoftBound THEN ROne
                     ELSE IF RLt(RZero, d0) THEN RSub(ROne, pj.sy.LWt)
                     ELSE pj.sy.LWt
             d == RMul(RMul(wb, room), d0)
         IN  [pj EXCEPT !.sy.LWt = RClip(RAdd(@, d)), !.sy.DWt = RZero]

\* the activations of a unit at the end of a trial
UnitActs ==
    { [ActP |-> ROne, ActM |-> RZero, ActQ1 |-> Rat(1, 2), ActQ2 |-> ROne],
      [ActP |-> RZero, ActM |-> ROne, ActQ1 |-> Rat(1, 2), ActQ2 |-> RZero],
      [ActP |-> ROne, ActM |-> ROne, ActQ1 |-> RZero, ActQ2 |-> Rat(1, 2)] }

\* the pathway CA3ToCA1 of class HippoCHL as ConfigNet leaves it (Defaults,
\* then the sheets of the Base set that select it), with its units,
\* averages and weight
NewPrjn(sn, rn, avg, avgEff, lwt) ==
    LET zero == [CHL |-> ZeroCHL, Learn |-> FALSE, Lrate |-> RZero,
                 SoftBound |-> FALSE, NormOn |-> FALSE, MomentumOn |-> FALSE,
                 sn |-> sn, rn |-> rn, ActPAvg |-> avg, ActPAvgEff |-> avgEff,
                 sy |-> [LWt |-> lwt, DWt |-> RZero, Norm |-> RZero,
                         Moment |-> RZero],
                 passes |-> 0, sheets |-> 0, lastOp |-> "ConfigNet",
                 prev |-> [LWt |-> lwt, DWt |-> RZero, Norm |-> RZero,
                           Moment |-> RZero],
                 wb |-> ROne, cor |-> RZero]
    IN  ApplyParams(ApplyParams(ApplyParams(CHLPrjnDefaults(zero), SheetPrjn),
                                SheetHippoCHL), SheetCA3ToCA1)

ChlIdle ==
    NewPrjn(CHOOSE u \in UnitActs : u.ActP = RZero,
            CHOOSE u \in UnitActs : u.ActP = RZero,
            RZero, RZero, Rat(1, 2))

\* the values of leabra.TimeScales the variants distinguish
TimeScales == {"Cycle", "FastSpike", "Quarter", "Phase", "AlphaCycle"}

\* viewUpdt := ss.TrainUpdt; if !train { viewUpdt = ss.TestUpdt }
ViewUpdt(f, tr) == IF tr THEN f.TrainUpdt ELSE f.TestUpdt

\* the view is updated after cycle c of a quarter
ViewInCycle(f, tr, c) ==
    /\ f.ViewOn
    /\ \/ ViewUpdt(f, tr) = "Cycle" /\ c # CycPerQtr - 1
       \/ ViewUpdt(f, tr) = "FastSpike" /\ (c + 1) % 10 = 0

\* the view is updated after quarter q (counted from 0):
\* viewUpdt <= leabra.Quarter, or viewUpdt == leabra.Phase and qtr >= 2
ViewAtQuarter(f, tr, q) ==
    /\ f.ViewOn
    /\ \/ ViewUpdt(f, tr) \in {"Cycle", "FastSpike", "Quarter"}
       \/ ViewUpdt(f, tr) = "Phase" /\ q >= 2

\* the view is updated at the end of the alpha-cycle
ViewAtEnd(f, tr) == f.ViewOn /\ ViewUpdt(f, tr) = "AlphaCycle"

\* an update that advanced the cycle counter it displays
UpdateViewCounts(tm) == [tm EXCEPT !.Cycle = @ + 1]

\* Sim.UpdateView: the counters of ss.Time (through ss.Counters) and the
\* network are read and recorded for the display, and left as they are
UpdateView(tm) == tm

\* the counters after the place of an update, with and without the call
AfterView(called, tm) == IF called THEN UpdateView(tm) ELSE tm

\* Sim.Defaults: ViewOn = true, TrainUpdt = TestUpdt = leabra.AlphaCycle
ViewDefaults == [ViewOn |-> TRUE, TrainUpdt |-> "AlphaCycle", TestUpdt |-> "AlphaCycle"]

\* the view switched off
ViewOff == [ViewOn |-> FALSE, TrainUpdt |-> "AlphaCycle", TestUpdt |-> "AlphaCycle"]

\* the settings of this run (a), the settings of a second run that started
\* from the same state (b), whether the two have executed the same so far,
\* and whether this run has updated the view
NewView(a, b) == [a |-> a, b |-> b, same |-> TRUE, shown |-> FALSE]

\* both runs pass a place where the view may be updated, with counters tm
Viewed(ca, cb, tm) ==
    [view EXCEPT !.same = @ /\ AfterView(ca, tm) = AfterView(cb, tm),
                 !.shown = @ \/ ca]

\* settings of the three fields: every time scale as TrainUpdt and as
\* TestUpdt, and the defaults
ViewSettings ==
    {ViewDefaults}
    \cup {[ViewOn |-> TRUE, TrainUpdt |-> u[1], TestUpdt |-> u[2]] :
              u \in {<<"Cycle", "Phase">>, <<"FastSpike", "Cycle">>,
                     <<"Quarter", "FastSpike">>, <<"Phase", "Quarter">>}}

\* a thread that is not inside a method of Sim
IdleThread ==
    [fn |-> "none", at |-> "idle", nested |-> FALSE, v |-> "none", tr |-> FALSE,
     i |-> 0, log |-> <<>>]

\* the training counters after Sim.Init (ConfigEnv, NewRun) with the values
\* ConfigEnv gives MaxRuns, MaxEpcs and NZeroStop when none was set, the
\* TestInterval of Defaults, and a table of one row. Train has not been
\* called (at); runs and last are ghosts: the runs ended since Train was
\* called, and whether the last TrainTrial call ended a run, and whether it
\* executed an alpha-cycle
NoTrainTrial == [ended |-> FALSE, cycled |-> FALSE]
TrnIdle ==
    [MaxRuns |-> 1, MaxEpcs |-> 1, NZeroStop |-> 1, TestInterval |-> -1,
     Rows |-> 1, Run |-> 0, Epoch |-> 0, Chg |-> FALSE, Trial |-> -1,
     NZero |-> 0, NeedsNewRun |-> FALSE,
     at |-> "idle", runs |-> 0, last |-> NoTrainTrial]

\* the Sim after construction: IsRunning and StopNow are false, the GUI
\* thread (0) waits for events, no goroutine runs
SimIdle ==
    [IsRunning |-> FALSE, StopNow |-> FALSE, crashed |-> FALSE,
     req |-> FALSE, after |-> 0, trn |-> TrnIdle,
     th |-> [t \in 0..MaxGo |-> IdleThread]]

\* the Sim with any MaxRuns and MaxEpcs from 1 up, NZeroStop off or on, no
\* testing or testing every epoch or every second one, any table size
SimStarts ==
    {[SimIdle EXCEPT !.trn.MaxRuns = r, !.trn.MaxEpcs = e, !.trn.NZeroStop = z,
                     !.trn.TestInterval = ti, !.trn.Rows = n] :
        r \in 1..MaxRunsTop, e \in 1..MaxEpcsTop, z \in {0, 1, 2},
        ti \in {-1, 1, 2}, n \in 1..MaxRows}

NoCalls ==
    [wtFmDWt |-> 0, dwt |-> 0, init |-> 0, qfinal |-> 0, qinc |-> 0,
     memStats |-> 0, ca3cor |-> 0, applyExt |-> 0, clamp |-> 0, restore |-> 0,
     cycles |-> <<0, 0, 0, 0>>, lastOp |-> "call", memArg |-> FALSE]

InitSim ==
    /\ pc = "idle"
    /\ variant = "AlphaCyc"
    /\ train = FALSE
    /\ qtr = 0
    /\ cyc = 0
    /\ cycPerQtr = CycPerQtr
    /\ dgwtscale = 0
    /\ timeCycle = 0
    /\ timeQuarter = 0
    /\ Hiponly \in BOOLEAN
    /\ wtScale = [p \in Prjns |-> [Abs |-> ParamAbs(p), Rel |-> ParamRel(p)]]
    /\ gscale = wtScale
    /\ dirty = FALSE
    /\ learn = [p \in Prjns |-> p \notin ParamLearnOff]
    /\ off = [l \in Layers |-> FALSE]
    /\ layTyp = [l \in Layers |-> ConfigTyp(l)]
    /\ ext = [l \in Layers |-> <<>>]
    /\ TmpVals = <<>>
    /\ wt = [p \in Prjns |-> {}]
    /\ dwt = [p \in Prjns |-> {}]
    /\ trialNo = 0
    /\ pre = [wtScale |-> wtScale, wt |-> wt, dwt |-> dwt, ext |-> ext,
              learn |-> learn, off |-> off]
    /\ cnt = NoCalls
    /\ sim \in SimStarts
    /\ view \in {NewView(a, b) : a \in ViewSettings, b \in {ViewOff, ViewDefaults}}

Init ==
    /\ InitSim
    /\ sim = SimIdle
    /\ view = NewView(ViewDefaults, ViewOff)
    /\ ms = MsIdle
    /\ chl = ChlIdle

----------------------------------------------------------------------------
(* Engine calls, as far as the controller depends on them *)

\* Net.WtFmDWt: every learning pathway folds its accumulated deltas into its
\* weights and clears them
WtFmDWt(lrn, w, d) ==
    [wt |-> [p \in Prjns |-> IF lrn[p] THEN w[p] \cup d[p] ELSE w[p]],
     dwt |-> [p \in Prjns |-> IF lrn[p] THEN {} ELSE d[p]]]

\* a DWt pass that wrote its deltas straight into the weights
DWtImmediate(lrn, w, d, n) ==
    [wt |-> [p \in Prjns |-> IF lrn[p] THEN w[p] \cup {n} ELSE w[p]],
     dwt |-> d]

\* Net.DWt: every pathway with Learn.Learn accumulates this trial's delta
\* (CHLPrjn.DWt: sy.DWt += ...); weights are not written
DWt(lrn, w, d, n) ==
    [wt |-> w,
     dwt |-> [p \in Prjns |-> IF lrn[p] THEN d[p] \cup {n} ELSE d[p]]]

\* layer.UnitVals(&ss.TmpVals, "Act")
UnitVals(l, t) == <<l, t>>

\* Net.GScaleFmAvgAct: every layer that is not Off computes the scaling
\* factors of its receiving pathways from their current weight scales
GScaleFmAvgAct(ws, gs, of) ==
    [p \in Prjns |-> IF of[p[2]] THEN gs[p] ELSE ws[p]]

----------------------------------------------------------------------------
(* The six variants, by what distinguishes them *)

\* a switch whose case 3 kept CA1 driven by CA3
QtrScaleNoRevert(v, q1, tr, ws, dg) ==
    IF q1 \in {1, 3} /\ v # "AlphaCycAE"
    THEN [ws EXCEPT ![ca1FmECin].Abs = Whole(0), ![ca1FmCa3].Abs = Whole(1),
                    ![ca3FmDg].Rel = IF q1 = 3 THEN @
                                     ELSE IF tr THEN dg ELSE dg - Whole(MossyDelTest)]
    ELSE ws

\* a switch whose case 1 used MossyDelTest in training too
QtrScaleTestMossy(v, q1, tr, ws, dg) ==
    IF v = "AlphaCycAE" THEN ws
    ELSE IF q1 = 1
    THEN [ws EXCEPT ![ca1FmECin].Abs = Whole(0), ![ca1FmCa3].Abs = Whole(1),
                    ![ca3FmDg].Rel = dg - Whole(MossyDelTest)]
    ELSE IF q1 = 3
    THEN [ws EXCEPT ![ca1FmECin].Abs = Whole(1), ![ca1FmCa3].Abs = Whole(0)]
    ELSE ws

\* the switch qtr + 1 of the variant: the weight scales after the quarter
\* whose number (counted from 1) is q1
QtrScale(v, q1, tr, ws, dg) ==
    CASE v \in {"AlphaCyc", "AlphaCycPreTrain", "AlphaCycRestudy"} /\ q1 = 1 ->
            [ws EXCEPT ![ca1FmECin].Abs = Whole(0),
                       ![ca1FmCa3].Abs = Whole(1),
                       ![ca3FmDg].Rel = IF tr THEN dg ELSE dg - Whole(MossyDelTest)]
      [] v \in {"AlphaCyc", "AlphaCycPreTrain", "AlphaCycRestudy"} /\ q1 = 3 ->
            [ws EXCEPT ![ca1FmECin].Abs = Whole(1),
                       ![ca1FmCa3].Abs = Whole(0)]
      [] v \in {"AlphaCycRP", "AlphaCycRPAE"} /\ q1 = 1 ->
            [ws EXCEPT ![ca1FmECin].Abs = Whole(0),
                       ![ca1FmCa3].Abs = Whole(1),
                       ![ca3FmDg].Rel = dg - Whole(MossyDelTest)]
      [] v = "AlphaCycRPAE" /\ q1 = 2 ->
            [ws EXCEPT ![autohidFmECout].Abs = Whole(1)]
      [] v \in {"AlphaCycRP", "AlphaCycRPAE"} /\ q1 = 3 ->
            [ws EXCEPT ![ca1FmECin].Abs = Whole(0),
                       ![ca1FmCa3].Abs = Whole(1)]
      [] OTHER -> ws

\* whether that case of the switch assigns weight scales
QtrAssigns(v, q1) ==
    \/ v \in {"AlphaCyc", "AlphaCycPreTrain", "AlphaCycRestudy", "AlphaCycRP"}
       /\ q1 \in {1, 3}
    \/ v = "AlphaCycRPAE" /\ q1 \in {1, 2, 3}

\* a switch whose case 3 assigned the scales without recomputing
QtrRecomputesFirstOnly(v, q1) == v # "AlphaCycAE" /\ q1 = 1

\* whether that case calls ss.Net.GScaleFmAvgAct() and ss.Net.InitGInc()
QtrRecomputes(v, q1) ==
    \/ v \in {"AlphaCyc", "AlphaCycPreTrain", "AlphaCycRestudy", "AlphaCycRP"}
       /\ q1 \in {1, 3}
    \/ v = "AlphaCycRPAE" /\ q1 \in {1, 2, 3}

\* the loop bound of the next quarter, set in the switch
QtrCycles(v, q1, cur) ==
    CASE v = "AlphaCycRP" /\ q1 = 1 -> RPCycQ1
      [] v = "AlphaCycRP" /\ q1 = 2 -> RPCycQ2
      [] v = "AlphaCycRPAE" /\ q1 = 1 -> RPAECycQ1
      [] v = "AlphaCycRPAE" /\ q1 = 2 -> RPAECycQ2
      [] v \in {"AlphaCycRP", "AlphaCycRPAE"} /\ q1 = 3 -> CycPerQtr
      [] OTHER -> cur

\* clamps that read ECout instead of ECin
QtrClampsFromECout(v) ==
    IF v = "AlphaCycAE" THEN << >>
    ELSE << <<"ECout", "ECout">>, <<"Output", "ECout">> >>

\* the clamps of case 3 in a training trial: <<layer clamped, layer read>>,
\* in source order
QtrClamps(v) ==
    CASE v = "AlphaCyc" -> << <<"ECout", "ECin">>, <<"Output", "ECin">> >>
      [] v \in {"AlphaCycPreTrain", "AlphaCycRestudy"} -> << <<"ECout", "ECin">> >>
      [] v = "AlphaCycRP" -> << <<"Output", "ECout">>, <<"ECout", "Auto">> >>
      [] OTHER -> << >>

\* whether the variant clamps Autoin from ECout after this cycle
CycleClamps(v, tr, q, c) == v = "AlphaCycRP" /\ tr /\ q = 2 /\ c = RPClampCyc

\* MemStats moved to the end of the last quarter
MemStatsQtrLast(v) == 4

\* the quarter (counted from 1) after whose QuarterFinal MemStats is called
MemStatsQtr(v) == 3

\* the train argument the variant gives MemStats
MemStatsArg(v, tr) == IF v = "AlphaCycAE" THEN TRUE ELSE tr

\* whether the variant calls CA3COR after the last QuarterFinal
CallsCA3COR(v) == v \in {"AlphaCyc", "AlphaCycPreTrain", "AlphaCycRestudy"}

\* whether the variant ends with "ca3FmDg.WtScale.Rel = dgwtscale // restore"
\* and "ca1FmCa3.WtScale.Abs = 1"
Restores(v) == v # "AlphaCycAE"

\* "if train { ss.Net.WtFmDWt() }" at the start of the variant
CallsWtFmDWt(v, tr) == tr

\* a DWt pass that ran in test trials too
CallsDWtAlways(v, tr) == TRUE

\* "if train { ss.Net.DWt() }" at the end of the variant
CallsDWt(v, tr) == tr

\* an outer loop that stopped after three quarters
LoopContinuesThree(q) == q < 3

\* the condition of "for qtr := 0; qtr < 4; qtr++"
LoopContinues(q) == q < 4

\* post-trial assignments that left the mossy scale as the trial had it
RestoreAbsOnly(ws, dg) == [ws EXCEPT ![ca1FmCa3].Abs = Whole(1)]

\* the post-trial assignments
Restore(ws, dg) ==
    [ws EXCEPT ![ca3FmDg].Rel = dg, ![ca1FmCa3].Abs = Whole(1)]

----------------------------------------------------------------------------
(* Steps of an alpha-cycle *)

Did(op) == [cnt EXCEPT !.lastOp = op]

\* ss.AlphaCycXxx(train) is called, as one of at most max trials
CallWithin(v, tr, max) ==
    /\ pc = "idle"
    /\ trialNo < max
    /\ pc' = "WtFmDWt"
    /\ variant' = v
    /\ train' = tr
    /\ trialNo' = trialNo + 1
    /\ pre' = [wtScale |-> wtScale, wt |-> wt, dwt |-> dwt, ext |-> ext,
               learn |-> learn, off |-> off]
    /\ cnt' = NoCalls
    /\ UNCHANGED <<qtr, cyc, cycPerQtr, dgwtscale, timeCycle, timeQuarter, net, env>>

Call(v, tr) == CallWithin(v, tr, MaxTrials)

\* if train { ss.Net.WtFmDWt() }
WtFmDWtStep ==
    /\ pc = "WtFmDWt"
    /\ pc' = "Setup"
    /\ IF CallsWtFmDWt(variant, train)
       THEN LET r == WtFmDWt(learn, wt, dwt) IN
            /\ wt' = r.wt
            /\ dwt' = r.dwt
            /\ cnt' = [Did("WtFmDWt") EXCEPT !.wtFmDWt = @ + 1]
       ELSE UNCHANGED <<wt, dwt, cnt>>
    /\ UNCHANGED <<variant, train, qtr, cyc, cycPerQtr, dgwtscale, timeCycle, timeQuarter,
                   wtScale, gscale, dirty, learn, off, layTyp, ext, TmpVals,
                   env, trialNo, pre>>

\* the lookups by name and the assignments up to Net.AlphaCycInit
SetupStep ==
    /\ pc = "Setup"
    /\ LET st0 == [learn |-> learn, off |-> off, wtScale |-> wtScale,
                   layTyp |-> layTyp, dgwtscale |-> dgwtscale, dirty |-> dirty,
                   ok |-> TRUE]
           st == RunSetup(SetupOf(variant, train, Hiponly), 1, st0)
       IN  /\ learn' = st.learn
           /\ off' = st.off
           /\ wtScale' = st.wtScale
           /\ layTyp' = st.layTyp
           /\ dgwtscale' = st.dgwtscale
           /\ dirty' = st.dirty
           /\ pc' = IF st.ok THEN "AlphaCycInit" ELSE "panic"
    /\ cnt' = Did("Setup")
    /\ UNCHANGED <<variant, train, qtr, cyc, cycPerQtr, timeCycle, timeQuarter,
                   gscale, ext, TmpVals, wt, dwt, env, trialNo, pre>>

\* ss.Net.AlphaCycInit(); ss.Time.AlphaCycStart(); the loops start.
\* AlphaCycInit computes the input scaling of the new trial (GScaleFmAvgAct)
\* and resets the net input increments (InitGInc).
AlphaCycInitStep ==
    /\ pc = "AlphaCycInit"
    /\ pc' = "Cycle"
    /\ gscale' = GScaleFmAvgAct(wtScale, gscale, off)
    /\ dirty' = FALSE
    /\ timeCycle' = 0
    /\ timeQuarter' = 0
    /\ qtr' = 0
    /\ cyc' = 0
    /\ cycPerQtr' = CycPerQtr
    /\ cnt' = [Did("AlphaCycInit") EXCEPT !.init = @ + 1]
    /\ UNCHANGED <<variant, train, dgwtscale, wtScale, learn, off, layTyp, ext, TmpVals,
                   wt, dwt, env, trialNo, pre>>

\* one iteration of the inner loop: ss.Net.Cycle(&ss.Time), the clamp of
\* AlphaCycRP, ss.Time.CycleInc()
CycleStep ==
    /\ pc = "Cycle"
    /\ cyc < cycPerQtr
    /\ IF CycleClamps(variant, train, qtr, cyc)
       THEN /\ TmpVals' = UnitVals("ECout", timeCycle)
            /\ ext' = [ext EXCEPT !["Autoin"] = UnitVals("ECout", timeCycle)]
            /\ cnt' = [Did("Cycle") EXCEPT !.cycles[qtr + 1] = @ + 1, !.applyExt = @ + 1]
       ELSE /\ UNCHANGED <<TmpVals, ext>>
            /\ cnt' = [Did("Cycle") EXCEPT !.cycles[qtr + 1] = @ + 1]
    /\ LET tm == [Cycle |-> timeCycle + 1, Quarter |-> timeQuarter]
           ca == ViewInCycle(view.a, train, cyc)
           cb == ViewInCycle(view.b, train, cyc)
       IN  /\ timeCycle' = AfterView(ca, tm).Cycle
           /\ timeQuarter' = AfterView(ca, tm).Quarter
           /\ view' = Viewed(ca, cb, tm)
    /\ cyc' = cyc + 1
    /\ UNCHANGED <<pc, variant, train, qtr, cycPerQtr, dgwtscale,
                   wtScale, gscale, dirty, learn, off, layTyp, wt, dwt,
                   Hiponly, ms, chl, sim, trialNo, pre>>

\* a switch whose cases end the trial with a learning pass
AfterSwitchLearns(v, q1) == "DWt"

\* where a variant goes after the assignments of its switch
AfterSwitch(v, q1) ==
    IF QtrRecomputes(v, q1) THEN "GScaleFmAvgAct" ELSE "QuarterFinal"

\* the inner loop ends; switch qtr + 1: the assignments of the case
SwitchStep ==
    /\ pc = "Cycle"
    /\ cyc >= cycPerQtr
    /\ wtScale' = QtrScale(variant, qtr + 1, train, wtScale, dgwtscale)
    /\ dirty' = (dirty \/ QtrAssigns(variant, qtr + 1))
    /\ cycPerQtr' = QtrCycles(variant, qtr + 1, cycPerQtr)
    /\ pc' = AfterSwitch(variant, qtr + 1)
    /\ cnt' = Did("Switch")
    /\ UNCHANGED <<variant, train, qtr, cyc, dgwtscale, timeCycle, timeQuarter,
                   gscale, learn, off, layTyp, ext, TmpVals, wt, dwt,
                   env, trialNo, pre>>

\* a switch that clamped the targets in its case 1
AfterRecomputeFirst(q1) == IF q1 = 1 THEN "Clamp" ELSE "QuarterFinal"

\* what follows the recomputation in a case of the switch: in case 3 the
\* "if train { ... ApplyExt1D32 ... }" block, then ss.Net.QuarterFinal
AfterRecompute(q1) == IF q1 = 3 THEN "Clamp" ELSE "QuarterFinal"

\* ss.Net.GScaleFmAvgAct(); ss.Net.InitGInc()
RecomputeStep ==
    /\ pc = "GScaleFmAvgAct"
    /\ gscale' = GScaleFmAvgAct(wtScale, gscale, off)
    /\ dirty' = FALSE
    /\ pc' = AfterRecompute(qtr + 1)
    /\ cnt' = Did("GScaleFmAvgAct")
    /\ UNCHANGED <<variant, train, qtr, cyc, cycPerQtr, dgwtscale, timeCycle, timeQuarter,
                   wtScale, learn, off, layTyp, ext, TmpVals, wt, dwt,
                   env, trialNo, pre>>

\* the clamps c[i..], each reading its source layer into TmpVals and applying it
RECURSIVE ApplyClamps(_, _, _, _)
ApplyClamps(c, i, t, st) ==
    IF i > Len(c) THEN st
    ELSE ApplyClamps(c, i + 1, t,
            [st EXCEPT !.TmpVals = UnitVals(c[i][2], t),
                       !.ext[c[i][1]] = UnitVals(c[i][2], t),
                       !.n = @ + 1])

\* case 3, after the recomputation: if train { UnitVals; ApplyExt1D32 }
ClampStep ==
    /\ pc = "Clamp"
    /\ pc' = "QuarterFinal"
    /\ IF train
       THEN LET r == ApplyClamps(QtrClamps(variant), 1, timeCycle,
                                 [TmpVals |-> TmpVals, ext |-> ext, n |-> 0])
            IN  /\ TmpVals' = r.TmpVals
                /\ ext' = r.ext
                /\ cnt' = [Did("Clamp") EXCEPT !.applyExt = @ + r.n, !.clamp = @ + 1]
       ELSE /\ UNCHANGED <<TmpVals, ext>>
            /\ cnt' = Did("Clamp")
    /\ UNCHANGED <<variant, train, qtr, cyc, cycPerQtr, dgwtscale, timeCycle, timeQuarter,
                   wtScale, gscale, dirty, learn, off, layTyp, wt, dwt,
                   env, trialNo, pre>>

\* where a variant goes after ss.Net.QuarterFinal of quarter q1 (counted from 1)
AfterQuarterFinal(v, q1) ==
    IF q1 = MemStatsQtr(v) THEN "MemStats"
    ELSE IF q1 = 4 /\ CallsCA3COR(v) THEN "CA3COR"
    ELSE "QuarterInc"

\* ss.Net.QuarterFinal(&ss.Time)
QuarterFinalStep ==
    /\ pc = "QuarterFinal"
    /\ pc' = AfterQuarterFinal(variant, qtr + 1)
    /\ cnt' = [Did("QuarterFinal") EXCEPT !.qfinal = @ + 1]
    /\ UNCHANGED <<variant, train, qtr, cyc, cycPerQtr, dgwtscale, timeCycle, timeQuarter,
                   net, env, trialNo, pre>>

\* ss.MemStats(train)
MemStatsStep ==
    /\ pc = "MemStats"
    /\ pc' = "QuarterInc"
    /\ cnt' = [Did("MemStats") EXCEPT !.memStats = @ + 1,
                                      !.memArg = MemStatsArg(variant, train)]
    /\ UNCHANGED <<variant, train, qtr, cyc, cycPerQtr, dgwtscale, timeCycle, timeQuarter,
                   net, env, trialNo, pre>>

\* ss.CA3COR()
CA3CORStep ==
    /\ pc = "CA3COR"
    /\ pc' = "QuarterInc"
    /\ cnt' = [Did("CA3COR") EXCEPT !.ca3cor = @ + 1]
    /\ UNCHANGED <<variant, train, qtr, cyc, cycPerQtr, dgwtscale, timeCycle, timeQuarter,
                   net, env, trialNo, pre>>

\* where a variant goes when its outer loop ends
AfterLoop(v) == IF Restores(v) THEN "Restore" ELSE "DWt"

\* ss.Time.QuarterInc(); qtr++
QuarterIncStep ==
    /\ pc = "QuarterInc"
    /\ LET tm == [Cycle |-> timeCycle, Quarter |-> timeQuarter + 1]
           ca == ViewAtQuarter(view.a, train, qtr)
           cb == ViewAtQuarter(view.b, train, qtr)
       IN  /\ timeCycle' = AfterView(ca, tm).Cycle
           /\ timeQuarter' = AfterView(ca, tm).Quarter
           /\ view' = Viewed(ca, cb, tm)
    /\ qtr' = qtr + 1
    /\ cyc' = 0
    /\ pc' = IF LoopContinues(qtr + 1) THEN "Cycle" ELSE AfterLoop(variant)
    /\ cnt' = [Did("QuarterInc") EXCEPT !.qinc = @ + 1]
    /\ UNCHANGED <<variant, train, cycPerQtr, dgwtscale,
                   net, Hiponly, ms, chl, sim, trialNo, pre>>

\* ca3FmDg.WtScale.Rel = dgwtscale; ca1FmCa3.WtScale.Abs = 1
RestoreStep ==
    /\ pc = "Restore"
    /\ wtScale' = Restore(wtScale, dgwtscale)
    /\ dirty' = TRUE
    /\ pc' = "DWt"
    /\ cnt' = [Did("Restore") EXCEPT !.restore = @ + 1]
    /\ UNCHANGED <<variant, train, qtr, cyc, cycPerQtr, dgwtscale, timeCycle, timeQuarter,
                   gscale, learn, off, layTyp, ext, TmpVals, wt, dwt,
                   env, trialNo, pre>>

\* if train { ss.Net.DWt() }; if ss.ViewOn && viewUpdt == leabra.AlphaCycle {
\* ss.UpdateView(train) }
DWtStep ==
    /\ pc = "DWt"
    /\ pc' = "return"
    /\ IF CallsDWt(variant, train)
       THEN LET r == DWt(learn, wt, dwt, trialNo) IN
            /\ wt' = r.wt
            /\ dwt' = r.dwt
            /\ cnt' = [Did("DWt") EXCEPT !.dwt = @ + 1]
       ELSE UNCHANGED <<wt, dwt, cnt>>
    /\ LET tm == [Cycle |-> timeCycle, Quarter |-> timeQuarter]
           ca == ViewAtEnd(view.a, train)
           cb == ViewAtEnd(view.b, train)
       IN  /\ timeCycle' = AfterView(ca, tm).Cycle
           /\ timeQuarter' = AfterView(ca, tm).Quarter
           /\ view' = Viewed(ca, cb, tm)
    /\ UNCHANGED <<variant, train, qtr, cyc, cycPerQtr, dgwtscale,
                   wtScale, gscale, dirty, learn, off, layTyp, ext, TmpVals,
                   Hiponly, ms, chl, sim, trialNo, pre>>

\* the variant returns to its caller
ReturnStep ==
    /\ pc = "return"
    /\ pc' = "idle"
    /\ UNCHANGED <<variant, train, qtr, cyc, cycPerQtr, dgwtscale, timeCycle, timeQuarter,
                   net, env, trialNo, pre, cnt>>

Next ==
    \/ \E v \in Variants, tr \in BOOLEAN : Call(v, tr)
    \/ WtFmDWtStep
    \/ SetupStep
    \/ AlphaCycInitStep
    \/ CycleStep
    \/ SwitchStep
    \/ RecomputeStep
    \/ ClampStep
    \/ QuarterFinalStep
    \/ MemStatsStep
    \/ CA3CORStep
    \/ QuarterIncStep
    \/ RestoreStep
    \/ DWtStep
    \/ ReturnStep

Spec == Init /\ [][Next]_vars

\* the alpha-cycles under any of the view settings, beside a second run
\* under other settings
InitView ==
    /\ InitSim
    /\ sim = SimIdle
    /\ ms = MsIdle
    /\ chl = ChlIdle

NextView ==
    \/ \E v \in Variants, tr \in BOOLEAN : trialNo < MaxViewTrials /\ Call(v, tr)
    \/ WtFmDWtStep
    \/ SetupStep
    \/ AlphaCycInitStep
    \/ CycleStep
    \/ SwitchStep
    \/ RecomputeStep
    \/ ClampStep
    \/ QuarterFinalStep
    \/ MemStatsStep
    \/ CA3CORStep
    \/ QuarterIncStep
    \/ RestoreStep
    \/ DWtStep
    \/ ReturnStep

SpecView == InitView /\ [][NextView]_vars

\* the alpha-cycles over longer histories: a trial, a trial that changes the
\* Learn flags, and a trial after it
NextHistory ==
    \/ \E v \in Variants, tr \in BOOLEAN : CallWithin(v, tr, MaxHistory)
    \/ WtFmDWtStep
    \/ SetupStep
    \/ AlphaCycInitStep
    \/ CycleStep
    \/ SwitchStep
    \/ RecomputeStep
    \/ ClampStep
    \/ QuarterFinalStep
    \/ MemStatsStep
    \/ CA3CORStep
    \/ QuarterIncStep
    \/ RestoreStep
    \/ DWtStep
    \/ ReturnStep

SpecHistory == Init /\ [][NextHistory]_vars

----------------------------------------------------------------------------
(* MemStats on its own: any pattern on the units it reads, any threshold   *)
(* of the three below, a score left by an earlier trial                    *)

\* ss.MemThr: the value Sim.Defaults sets, and two values a user may set
MemThrs == {Rat(34, 100), Rat(1, 2), Rat(1, 1)}

InitMem ==
    /\ InitSim
    /\ sim = SimIdle
    /\ view = NewView(ViewDefaults, ViewOff)
    /\ Hiponly = FALSE
    /\ chl = ChlIdle
    /\ \E read \in [1..MemStatsLen -> UnitKinds], thr \in MemThrs, mem \in {0, 1} :
          ms = NewStats([i \in 1..OutputUnits |->
                            IF i <= MemStatsLen THEN read[i] ELSE UnreadUnit],
                        thr, mem)

MemStatsCall(tr) ==
    /\ ms.calls < MaxMemCalls
    /\ ms' = MemStats(ms, tr)
    /\ UNCHANGED <<ctl, net, Hiponly, chl, sim, view, trialNo, pre, cnt>>

NextMem == \E tr \in BOOLEAN : MemStatsCall(tr)

SpecMem == InitMem /\ [][NextMem]_vars

----------------------------------------------------------------------------
(* One CHL pathway on its own: parameter sheets, Learn assignments, DWt    *)
(* passes and weight updates in any order                                  *)

InitCHL ==
    /\ InitSim
    /\ sim = SimIdle
    /\ view = NewView(ViewDefaults, ViewOff)
    /\ Hiponly = FALSE
    /\ ms = MsIdle
    /\ \E sn \in UnitActs, rn \in {u \in UnitActs : u.ActP = ROne},
          avg \in {RZero, Rat(1, 1000), Rat(1, 4)},
          lwt \in {RZero, Rat(1, 2), ROne} :
          chl = NewPrjn(sn, rn, avg, Rat(1, 4), lwt)

Stepped(pj, op) == [pj EXCEPT !.lastOp = op, !.prev = chl.sy]

\* SetParamsSet: a sheet is applied to the pathway
ApplyParamsCall(sheet) ==
    /\ chl.sheets < MaxSheets
    /\ chl' = [Stepped(ApplyParams(chl, sheet), "ApplyParams")
                  EXCEPT !.sheets = @ + 1]
    /\ UNCHANGED <<ctl, net, Hiponly, ms, sim, view, trialNo, pre, cnt>>

\* an alpha-cycle variant assigns the pathway's Learn.Learn
SetLearnCall(b) ==
    /\ chl.Learn # b
    /\ chl' = Stepped([chl EXCEPT !.Learn = b], "SetLearn")
    /\ UNCHANGED <<ctl, net, Hiponly, ms, sim, view, trialNo, pre, cnt>>

\* Net.DWt reaches the pathway
DWtCall(xcal) ==
    /\ chl.passes < MaxPasses
    /\ chl' = [Stepped(PrjnDWt(chl, xcal), "DWt") EXCEPT !.passes = @ + 1]
    /\ UNCHANGED <<ctl, net, Hiponly, ms, sim, view, trialNo, pre, cnt>>

\* Net.WtFmDWt reaches the pathway
WtFmDWtCall(wb) ==
    /\ chl' = [Stepped(PrjnWtFmDWt(chl, wb), "WtFmDWt") EXCEPT !.wb = wb]
    /\ UNCHANGED <<ctl, net, Hiponly, ms, sim, view, trialNo, pre, cnt>>

\* deltas of the standard rule, weight-balance factors
XCalDeltas == {Rat(1, 10)}
WtBalFactors == {ROne, Rat(2, 1)}

NextCHL ==
    \/ \E sheet \in Sheets : ApplyParamsCall(sheet)
    \/ \E b \in BOOLEAN : SetLearnCall(b)
    \/ \E xcal \in XCalDeltas : DWtCall(xcal)
    \/ \E wb \in WtBalFactors : WtFmDWtCall(wb)

SpecCHL == InitCHL /\ [][NextCHL]_vars

----------------------------------------------------------------------------
(* CHLPrjn.SAvgCor on its own, over the ranges of its three inputs *)

\* CHL.SAvgCor in [0, 1], CHL.SAvgThr >= 0, ActPAvgEff in [0, 1]
SAvgCorVals == {RZero, Rat(1, 10), Rat(4, 10), Rat(8, 10), ROne}
SAvgThrVals == {RZero, Rat(1, 1000), Rat(1, 10), Rat(1, 2), ROne}
AvgEffVals == {RZero, Rat(1, 10), Rat(1, 4), Rat(1, 2), ROne}

InitCor ==
    /\ InitSim
    /\ sim = SimIdle
    /\ view = NewView(ViewDefaults, ViewOff)
    /\ Hiponly = FALSE
    /\ ms = MsIdle
    /\ \E c \in SAvgCorVals, t \in SAvgThrVals, a \in AvgEffVals :
          chl = [ChlIdle EXCEPT !.CHL.SAvgCor = c, !.CHL.SAvgThr = t,
                                !.ActPAvgEff = a]

SAvgCorCall ==
    /\ chl.lastOp # "SAvgCor"
    /\ chl' = [Stepped(chl, "SAvgCor") EXCEPT !.cor = SAvgCor(chl)]
    /\ UNCHANGED <<ctl, net, Hiponly, ms, sim, view, trialNo, pre, cnt>>

NextCor == SAvgCorCall

SpecCor == InitCor /\ [][NextCor]_vars

----------------------------------------------------------------------------
(* The toolbar and the run methods: the GUI thread (0) runs one handler at *)
(* a time; a handler of a run method starts a goroutine; positions of a    *)
(* thread are "start" (the goroutine exists, nothing executed), "loop"     *)
(* (about to call the trial function), "testall" (about to call the test   *)
(* trial of TestAll / TestAE), "epoch" (TestAll returned inside a training *)
(* trial function), "trial" (inside the alpha-cycle), "testcheck" and      *)
(* "check" (the loop conditions), "stopped" (about to call Stopped),       *)
(* "exiting" (Stopped has cleared IsRunning) and "panic".                  *)

Threads == 0..MaxGo

\* the methods the toolbar starts with "go ss.Xxx()"
RunMethods ==
    {"Train", "RPRun", "RestudyRun", "TrainEpoch", "TrainRun", "PreTrain",
     "AERun", "RunTestAll", "RunTestAE"}

\* the methods the handlers of Step Trial, Test Trial and Test Item call
\* themselves, on the GUI thread
StepMethods == {"TrainTrial", "TestTrial", "TestItem"}

\* the trial function a method calls (in its loop, or once)
TrialFn(m) ==
    CASE m \in {"Train", "TrainEpoch", "TrainRun", "TrainTrial"} -> "TrainTrial"
      [] m = "RPRun" -> "RetrievalPracticeTrial"
      [] m = "RestudyRun" -> "RestudyTrial"
      [] m = "PreTrain" -> "PreTrainTrial"
      [] m = "AERun" -> "AETrainTrial"
      [] m \in {"RunTestAll", "TestTrial"} -> "TestTrial"
      [] m = "RunTestAE" -> "TestTrialAE"
      [] m = "TestItem" -> "TestItem"

\* the alpha-cycle a trial function calls
AlphaCycOf(f) ==
    CASE f = "TrainTrial" -> [v |-> "AlphaCyc", tr |-> TRUE]
      [] f = "RetrievalPracticeTrial" -> [v |-> "AlphaCycRP", tr |-> TRUE]
      [] f = "RestudyTrial" -> [v |-> "AlphaCycRestudy", tr |-> TRUE]
      [] f = "PreTrainTrial" -> [v |-> "AlphaCycPreTrain", tr |-> TRUE]
      [] f = "AETrainTrial" -> [v |-> "AlphaCycAE", tr |-> TRUE]
      [] f \in {"TestTrial", "TestItem"} -> [v |-> "AlphaCyc", tr |-> FALSE]
      [] f = "TestTrialAE" -> [v |-> "AlphaCycAE", tr |-> FALSE]

\* the trial functions that call TestAll when the epoch has changed
CallsTestAll(f) == f \in {"TrainTrial", "RestudyTrial"}

\* the trial functions that set StopNow and return when training is done
SetsStopNow(f) ==
    f \in {"TrainTrial", "RestudyTrial", "RetrievalPracticeTrial", "PreTrainTrial",
           "AETrainTrial"}

\* the trial functions that may return with NeedsNewRun set
SetsNeedsNewRun(f) == f \in {"TrainTrial", "RestudyTrial"}

\* the run loops that also break when a counter of the environment changed
BreaksOnCounter(m) == m \in {"TrainEpoch", "TrainRun", "RPRun", "PreTrain"}

\* the methods whose body is TestAll / TestAE
RunsTestAll(m) == m \in {"RunTestAll", "RunTestAE"}

\* a lookup of the variant's setup fails on the network ConfigNet builds
SetupPanics(v, tr) ==
    \E k \in 1..Len(SetupOf(v, tr, Hiponly)) : ~LookupOk(SetupOf(v, tr, Hiponly)[k])

\* what one call of a variant executes, in order
TrialPlan(v, tr) ==
    (IF CallsWtFmDWt(v, tr) THEN <<"WtFmDWt">> ELSE <<>>)
    \o (IF SetupPanics(v, tr) THEN <<"panic">>
        ELSE <<"Q1", "Q2", "Q3", "Q4">>
             \o (IF Restores(v) THEN <<"Restore">> ELSE <<>>)
             \o (IF CallsDWt(v, tr) THEN <<"DWt">> ELSE <<>>))

\* an alpha-cycle that gave up at the next step once StopNow was set
NextOpPreempt(k, len, stop) == IF stop THEN len + 1 ELSE k + 1

\* the position after step k of an alpha-cycle: the next one; the variants
\* do not read StopNow
NextOp(k, len, stop) == k + 1

\* a handler that started whatever was running
HandlerGuardOpen(isRunning) == TRUE

\* "if !ss.IsRunning {" of the toolbar handlers
HandlerGuard(isRunning) == ~isRunning

\* the thread is executing TestAll / TestAE
InTestAll(th) == th.nested \/ RunsTestAll(th.fn)

\* where a thread continues when TestAll / TestAE returns
AfterTestAll(th) ==
    [IdleThread EXCEPT !.fn = th.fn,
                       !.at = IF th.nested THEN "epoch" ELSE "stopped"]

\* the thread enters the alpha-cycle of trial function f
StartTrial(th, f) ==
    [th EXCEPT !.at = "trial", !.v = AlphaCycOf(f).v, !.tr = AlphaCycOf(f).tr,
               !.i = 1, !.log = <<>>]

\* ghost fields of sim: req, a Stop() call was made while IsRunning and the
\* run method has not reached Stopped() since; after, the calls of its
\* trial function that the run loop has made since then (2 stands for 2 or
\* more)
Requested(s) == [s EXCEPT !.req = @ \/ s.IsRunning,
                          !.after = IF s.req THEN @ ELSE 0]
LoopCalled(s) == IF s.req /\ s.after < 2 THEN [s EXCEPT !.after = @ + 1] ELSE s
Honoured(s) == [s EXCEPT !.req = FALSE, !.after = 0]

InitRun ==
    /\ InitSim
    /\ sim = SimIdle
    /\ view = NewView(ViewDefaults, ViewOff)
    /\ Hiponly = FALSE
    /\ ms = MsIdle
    /\ chl = ChlIdle

RunFrame == UNCHANGED <<ctl, net, Hiponly, ms, chl, view, trialNo, pre, cnt>>

\* Train, RP, Restudy, Step Epoch, Step Run, Pre Train, AE Train, Test All,
\* Test AE: if !ss.IsRunning { ss.IsRunning = true; go ss.Xxx() }
RunButton(m) ==
    /\ ~sim.crashed
    /\ sim.th[0].at = "idle"
    /\ HandlerGuard(sim.IsRunning)
    /\ \E g \in 1..MaxGo :
          /\ sim.th[g].at = "idle"
          /\ \A h \in 1..(g - 1) : sim.th[h].at # "idle"
          /\ sim' = [sim EXCEPT !.IsRunning = TRUE,
                                !.th[g] = [IdleThread EXCEPT !.fn = m, !.at = "start"]]
    /\ RunFrame

\* Step Trial, Test Trial, Test Item:
\* if !ss.IsRunning { ss.IsRunning = true; ss.Xxx(); ss.IsRunning = false }
StepButton(m) ==
    /\ ~sim.crashed
    /\ sim.th[0].at = "idle"
    /\ HandlerGuard(sim.IsRunning)
    /\ sim' = [sim EXCEPT !.IsRunning = TRUE,
                          !.th[0] = [IdleThread EXCEPT !.fn = m, !.at = "loop"]]
    /\ RunFrame

\* Stop: ss.Stop()
StopButton ==
    /\ ~sim.crashed
    /\ sim.th[0].at = "idle"
    /\ sim' = [Requested(sim) EXCEPT !.StopNow = TRUE]
    /\ RunFrame

\* the goroutine runs the statements before the loop: ss.StopNow = false
RunStart(t) ==
    /\ ~sim.crashed
    /\ sim.th[t].at = "start"
    /\ sim' = [sim EXCEPT !.StopNow = FALSE,
                          !.th[t].at = IF RunsTestAll(sim.th[t].fn) THEN "testall"
                                       ELSE "loop"]
    /\ RunFrame

\* the trial function, up to its alpha-cycle or its early return
TrialCall(t) ==
    LET th == sim.th[t]
        f == TrialFn(th.fn) IN
    /\ ~sim.crashed
    /\ th.at \in {"loop", "epoch"}
    /\ LET s == IF th.at = "loop" THEN LoopCalled(sim) ELSE sim IN
       \/ sim' = [s EXCEPT !.th[t] = StartTrial(th, f)]
       \/ /\ th.at = "loop"
          /\ CallsTestAll(f)
          /\ sim' = [s EXCEPT !.th[t].at = "testall", !.th[t].nested = TRUE]
       \/ /\ SetsStopNow(f)
          /\ sim' = [s EXCEPT !.StopNow = TRUE, !.th[t].at = "check"]
       \/ /\ SetsNeedsNewRun(f)
          /\ sim' = [s EXCEPT !.th[t].at = "check"]
    /\ RunFrame

\* TestAll / TestAE call TestTrial(true) / TestTrialAE(true), which returns
\* at once when the epoch counter changed
TestTrialCall(t) ==
    LET th == sim.th[t]
        f == IF th.nested THEN "TestTrial" ELSE TrialFn(th.fn) IN
    /\ ~sim.crashed
    /\ th.at = "testall"
    /\ LET s == IF th.nested THEN sim ELSE LoopCalled(sim) IN
       \/ sim' = [s EXCEPT !.th[t] = StartTrial(th, f)]
       \/ sim' = [s EXCEPT !.th[t] = AfterTestAll(th)]
    /\ RunFrame

\* one step of the alpha-cycle; a failed lookup ends the program
TrialStep(t) ==
    LET th == sim.th[t]
        plan == TrialPlan(th.v, th.tr)
        next == NextOp(th.i, Len(plan), sim.StopNow) IN
    /\ ~sim.crashed
    /\ th.at = "trial"
    /\ IF plan[th.i] = "panic"
       THEN sim' = [sim EXCEPT !.crashed = TRUE, !.th[t].at = "panic"]
       ELSE sim' = [sim EXCEPT
                       !.th[t] = [th EXCEPT
                                     !.log = Append(@, plan[th.i]),
                                     !.i = IF next > Len(plan) THEN 0 ELSE next,
                                     !.at = IF next <= Len(plan) THEN "trial"
                                            ELSE IF InTestAll(th) THEN "testcheck"
                                            ELSE "check"]]
    /\ RunFrame

\* TestAll / TestAE after a test trial: if chg || ss.StopNow { break }
TestCheck(t) ==
    LET th == sim.th[t] IN
    /\ ~sim.crashed
    /\ th.at = "testcheck"
    /\ sim' = [sim EXCEPT
                  !.th[t] = IF sim.StopNow THEN AfterTestAll(th)
                            ELSE [IdleThread EXCEPT !.fn = th.fn, !.at = "testall",
                                                    !.nested = th.nested]]
    /\ RunFrame

\* the run loop after the trial function: if ss.StopNow [|| counter] { break }
LoopCheck(t) ==
    LET th == sim.th[t] IN
    /\ ~sim.crashed
    /\ th.at = "check"
    /\ th.fn \in RunMethods
    /\ \E chg \in BOOLEAN :
          /\ chg => BreaksOnCounter(th.fn)
          /\ sim' = [sim EXCEPT
                        !.th[t] = [IdleThread EXCEPT
                                      !.fn = th.fn,
                                      !.at = IF sim.StopNow \/ chg THEN "stopped"
                                             ELSE "loop"]]
    /\ RunFrame

\* ss.Stopped(): ss.IsRunning = false
Stopped(t) ==
    /\ ~sim.crashed
    /\ sim.th[t].at = "stopped"
    /\ sim' = [Honoured(sim) EXCEPT !.IsRunning = FALSE,
                                    !.th[t] = [IdleThread EXCEPT !.at = "exiting"]]
    /\ RunFrame

\* the run method returns and its goroutine ends
RunExit(t) ==
    /\ ~sim.crashed
    /\ sim.th[t].at = "exiting"
    /\ sim' = [sim EXCEPT !.th[t] = IdleThread]
    /\ RunFrame

\* the trial function of a Step handler has returned: ss.IsRunning = false
StepReturn ==
    /\ ~sim.crashed
    /\ sim.th[0].at = "check"
    /\ sim.th[0].fn \in StepMethods
    /\ sim' = [sim EXCEPT !.IsRunning = FALSE, !.th[0] = IdleThread]
    /\ RunFrame

NextRun ==
    \/ \E m \in RunMethods : RunButton(m)
    \/ \E m \in StepMethods : StepButton(m)
    \/ StopButton
    \/ \E t \in Threads : RunStart(t)
    \/ \E t \in Threads : TrialCall(t)
    \/ \E t \in Threads : TestTrialCall(t)
    \/ \E t \in Threads : TrialStep(t)
    \/ \E t \in Threads : TestCheck(t)
    \/ \E t \in Threads : LoopCheck(t)
    \/ \E t \in Threads : Stopped(t)
    \/ \E t \in Threads : RunExit(t)
    \/ StepReturn

SpecRun == InitRun /\ [][NextRun]_vars

----------------------------------------------------------------------------
(* Train on its own: the counters of the training environment under any   *)
(* MaxRuns, MaxEpcs, NZeroStop, TestInterval and table size, with no Stop  *)

\* env.Ctr.Incr of the engine: the counter advances, and at a positive Max
\* it wraps to 0 and reports it
CtrIncr(cur, max) ==
    IF max > 0 /\ cur + 1 >= max THEN [Cur |-> 0, over |-> TRUE]
    ELSE [Cur |-> cur + 1, over |-> FALSE]

\* ss.TrainEnv.Step(): the trial counter advances; when it wraps, the epoch
\* counter, which has no Max, advances and is flagged as changed
EnvStep(t) ==
    LET tr == CtrIncr(t.Trial, t.Rows) IN
    [t EXCEPT !.Trial = tr.Cur,
              !.Epoch = IF tr.over THEN @ + 1 ELSE @,
              !.Chg = tr.over]

\* ss.TrainEnv.Init(run): the epoch and trial counters start over, the run
\* counter keeps its value
EnvInit(t) == [t EXCEPT !.Epoch = 0, !.Chg = FALSE, !.Trial = -1]

\* Sim.NewRun
NewRun(t) == [EnvInit(t) EXCEPT !.NZero = 0, !.NeedsNewRun = FALSE]

\* TestAll -> LogTstEpc: mem == 1 counts an epoch without memory errors
LogTstEpc(nz, mem1) == IF mem1 THEN nz + 1 ELSE 0

\* a run that ended one epoch after its last
RunOverLate(learned, epc, maxEpcs) == learned \/ epc > maxEpcs

\* "if learned || epc >= ss.MaxEpcs"
RunOver(learned, epc, maxEpcs) == learned \/ epc >= maxEpcs

\* Sim.TrainTrial, with mem1 the outcome of the test it may run: the new
\* counters, and whether it set StopNow
TrainTrial(t0, mem1) ==
    LET t1 == IF t0.NeedsNewRun THEN NewRun(t0) ELSE t0
        t2 == EnvStep(t1)
        tested == t2.Chg /\ t2.TestInterval > 0 /\ t2.Epoch % t2.TestInterval = 0
        nz == IF tested THEN LogTstEpc(t2.NZero, mem1) ELSE t2.NZero
        learned == t2.NZeroStop > 0 /\ nz >= t2.NZeroStop
        over == t2.Chg /\ RunOver(learned, t2.Epoch, t2.MaxEpcs)
        run == CtrIncr(t2.Run, t2.MaxRuns)
    IN  [trn |-> [t2 EXCEPT !.NZero = nz,
                            !.Run = IF over THEN run.Cur ELSE @,
                            !.NeedsNewRun = over /\ ~run.over,
                            !.runs = IF over THEN @ + 1 ELSE @,
                            !.last = [ended |-> over, cycled |-> ~over]],
         stop |-> over /\ run.over]

InitTrain ==
    /\ InitSim
    /\ view = NewView(ViewDefaults, ViewOff)
    /\ Hiponly = FALSE
    /\ ms = MsIdle
    /\ chl = ChlIdle

\* the Train button and the statements of Train before its loop
TrainCall ==
    /\ sim.trn.at = "idle"
    /\ HandlerGuard(sim.IsRunning)
    /\ sim' = [sim EXCEPT !.IsRunning = TRUE,
                          !.StopNow = FALSE,
                          !.trn = [EnvInit(@) EXCEPT !.at = "loop", !.runs = 0,
                                                     !.last = NoTrainTrial]]
    /\ RunFrame

\* ss.TrainTrial() in the loop of Train
TrainTrialCall ==
    /\ sim.trn.at = "loop"
    /\ \E mem1 \in BOOLEAN :
          LET r == TrainTrial(sim.trn, mem1) IN
          sim' = [sim EXCEPT !.StopNow = @ \/ r.stop,
                             !.trn = [r.trn EXCEPT !.at = "check"]]
    /\ RunFrame

\* if ss.StopNow { break }
TrainLoopCheck ==
    /\ sim.trn.at = "check"
    /\ sim' = [sim EXCEPT !.trn.at = IF sim.StopNow THEN "stopped" ELSE "loop"]
    /\ RunFrame

\* ss.Stopped(), and Train returns
TrainStopped ==
    /\ sim.trn.at = "stopped"
    /\ sim' = [sim EXCEPT !.IsRunning = FALSE, !.trn.at = "returned"]
    /\ RunFrame

NextTrain ==
    \/ TrainCall
    \/ TrainTrialCall
    \/ TrainLoopCheck
    \/ TrainStopped

\* the goroutine of Train is scheduled as long as it can take a step
SpecTrain == InitTrain /\ [][NextTrain]_vars /\ WF_vars(NextTrain)

----------------------------------------------------------------------------
(* Properties *)

\* a trial has returned to its caller
Returned == pc = "idle" /\ trialNo > 0

\* the state in which the next statement is ss.Net.Cycle(&ss.Time)
AtCycle == pc = "Cycle" /\ cyc < cycPerQtr

\* C1: weight-scale restoration. When a trial returns, every pathway weight
\* scale (WtScale.Abs and WtScale.Rel) has the value it had immediately
\* before the trial was called. The variants do not do this: AlphaCyc leaves
\* Cortex->Output Rel at 0.5 or 0, AlphaCycRP leaves EC->CA1 Abs at 0.
C1_ScalesRestored == Returned => wtScale = pre.wtScale

\* C2: delta application lag. The deltas of the DWt pass of trial N are in no
\* weight while trial N runs or after it returns; weights change only in the
\* WtFmDWt step at the start of a training trial, and a test trial runs with
\* the weights it was called with.
C2_DeltaLag ==
    /\ [](\A p \in Prjns : trialNo \notin wt[p])
    /\ []((trialNo > 0 /\ ~train) => wt = pre.wt)
    /\ [][wt' # wt => (pc = "WtFmDWt" /\ train /\ pc' = "Setup")]_vars

\* C2 witness: a training trial ends with its own deltas pending while the
\* deltas of the training trial before it are part of the weights
C2_Witness ==
    /\ pc = "return" /\ train /\ trialNo = 2
    /\ \E p \in Prjns : 2 \in dwt[p] /\ 2 \notin wt[p] /\ 1 \in wt[p]

C4_RecomputeBeforeCycle ==
    AtCycle =>
        /\ ~dirty
        /\ \A p \in Prjns : ~off[p[2]] => gscale[p] = wtScale[p]

\* C4 witness: the first cycle of the second quarter of AlphaCycRP, which runs
\* with the scales its switch has just assigned
C4_Witness ==
    /\ AtCycle /\ variant = "AlphaCycRP" /\ qtr = 1 /\ cyc = 0
    /\ wtScale[ca1FmECin].Abs = Whole(0)
    /\ gscale[ca1FmECin].Abs = Whole(0)
    /\ wtScale # pre.wtScale

\* the number of cycles of the q-th quarter (counted from 1) of variant v
QuarterLen(v, q) ==
    IF v = "AlphaCycRP" THEN <<CycPerQtr, RPCycQ1, RPCycQ2, CycPerQtr>>[q]
    ELSE CycPerQtr

\* C5, the state part: quarters are counted 0, 1, 2, 3; a quarter's cycles
\* run only while it is the current quarter, all of them before its
\* QuarterFinal, and each finished quarter has had one QuarterFinal and one
\* QuarterInc; a trial that returns has run four quarters and its post-trial
\* assignments
QuartersInOrder ==
    /\ cnt.qfinal <= 4 /\ cnt.qinc <= 4
    /\ cnt.init = 1 =>
          /\ qtr \in 0..4
          /\ cnt.qinc = qtr
          /\ timeQuarter = qtr
          /\ cnt.qfinal \in {qtr, qtr + 1}
          /\ \A q \in 1..4 :
                /\ cnt.cycles[q] > 0 => qtr >= q - 1
                /\ cnt.qfinal >= q => cnt.cycles[q] = QuarterLen(variant, q)
    /\ cnt.init = 0 => (cnt.qfinal = 0 /\ cnt.qinc = 0 /\ cnt.cycles = <<0, 0, 0, 0>>)
    /\ (pc = "return" \/ Returned) =>
          /\ cnt.init = 1 /\ qtr = 4 /\ cnt.qfinal = 4
          /\ cnt.restore = IF variant = "AlphaCycAE" THEN 0 ELSE 1

\* how far a trial that has started its quarters has come: the quarter, and
\* within the quarter the cycle or the statement after the cycles
Progress ==
    1000 * qtr +
    CASE pc = "Cycle" -> cyc
      [] pc = "GScaleFmAvgAct" -> 201
      [] pc = "Clamp" -> 202
      [] pc = "QuarterFinal" -> 203
      [] pc = "MemStats" -> 204
      [] pc = "CA3COR" -> 205
      [] pc = "QuarterInc" -> 206
      [] pc = "Restore" -> 207
      [] pc = "DWt" -> 208
      [] pc = "return" -> 209
      [] OTHER -> 210

\* a trial has started its quarters and has not yet returned
InQuarters == cnt.init = 1 /\ pc # "idle"

RunsWith(p, field, val) == wtScale[p][field] = val /\ gscale[p][field] = val

\* C7: base-protocol drive schedule. In AlphaCyc and AlphaCycPreTrain, in both
\* modes, every cycle of quarter 0 runs with EC->CA1 Abs = 1 and CA3->CA1
\* Abs = 0, every cycle of quarters 1 and 2 with 0 and 1, every cycle of
\* quarter 3 with 1 and 0 again.
C7_DriveSchedule ==
    (AtCycle /\ variant \in {"AlphaCyc", "AlphaCycPreTrain"}) =>
        IF qtr \in {1, 2}
        THEN RunsWith(ca1FmECin, "Abs", Whole(0)) /\ RunsWith(ca1FmCa3, "Abs", Whole(1))
        ELSE RunsWith(ca1FmECin, "Abs", Whole(1)) /\ RunsWith(ca1FmCa3, "Abs", Whole(0))

\* C7 witness: a cycle of the last quarter of a test trial of AlphaCyc, after a
\* trial of AlphaCycRP has left EC->CA1 at 0
C7_Witness ==
    /\ AtCycle /\ variant = "AlphaCyc" /\ ~train /\ qtr = 3 /\ cyc > 0
    /\ pre.wtScale[ca1FmECin].Abs = Whole(0)
    /\ RunsWith(ca1FmECin, "Abs", Whole(1))

\* C8: base-protocol mossy schedule. In AlphaCyc, with B the DG->CA3 Rel at
\* the start of the trial, every cycle of quarter 0 runs with B - MossyDel;
\* every cycle of quarters 1 to 3 runs with B in a training trial and with
\* B - MossyDelTest in a test trial.
C8_MossySchedule ==
    (AtCycle /\ variant = "AlphaCyc") =>
        LET B == pre.wtScale[ca3FmDg].Rel IN
        /\ dgwtscale = B
        /\ qtr = 0 => RunsWith(ca3FmDg, "Rel", B - Whole(MossyDel))
        /\ (qtr >= 1 /\ train) => RunsWith(ca3FmDg, "Rel", B)
        /\ (qtr >= 1 /\ ~train) => RunsWith(ca3FmDg, "Rel", B - Whole(MossyDelTest))

\* C8 witness: a cycle of the third quarter of a training trial of AlphaCyc,
\* running with the mossy input at its full strength
C8_Witness ==
    /\ AtCycle /\ variant = "AlphaCyc" /\ train /\ qtr = 2
    /\ RunsWith(ca3FmDg, "Rel", Whole(4))
    /\ pre.wtScale[ca3FmDg].Rel = Whole(4)

\* C9: clamp mode by trial mode. Once AlphaCyc has set the layer types, ECout
\* and Output are both Target in a training trial and both Compare in a test
\* trial. AlphaCyc does not do this: its test branch sets Output to Target.
C9_ClampMode ==
    (variant = "AlphaCyc" /\ cnt.init = 1) =>
        /\ layTyp["ECout"] = IF train THEN "Target" ELSE "Compare"
        /\ layTyp["Output"] = IF train THEN "Target" ELSE "Compare"

\* C10: copy-through clamp. In a training trial of AlphaCyc the clamp is made
\* once the cycles of the third quarter are over and before any cycle of the
\* last quarter, and it gives ECout and Output the ECin activations read at
\* that moment, which is what they hold during the last quarter; in a test
\* trial of any variant no ApplyExt is called and no layer's external input
\* changes.
C10_CopyThroughClamp ==
    /\ (variant = "AlphaCyc" /\ train /\ cnt.lastOp = "Clamp") =>
          /\ cnt.cycles[3] = CycPerQtr /\ cnt.cycles[4] = 0 /\ cnt.qinc = 2
          /\ cnt.applyExt = 2
          /\ TmpVals = UnitVals("ECin", timeCycle)
          /\ ext["ECout"] = UnitVals("ECin", timeCycle)
          /\ ext["Output"] = UnitVals("ECin", timeCycle)
    /\ (variant = "AlphaCyc" /\ train /\ cnt.init = 1 /\ qtr >= 3) =>
          /\ ext["ECout"] = UnitVals("ECin", 3 * CycPerQtr)
          /\ ext["Output"] = UnitVals("ECin", 3 * CycPerQtr)
    /\ (variant = "AlphaCyc" /\ train /\ trialNo > 0) =>
          \/ cnt.applyExt = 0 /\ ext = pre.ext /\ cnt.cycles[4] = 0
          \/ cnt.applyExt = 2 /\ cnt.cycles[3] = CycPerQtr
    /\ (~train /\ trialNo > 0) => (cnt.applyExt = 0 /\ ext = pre.ext)

\* C10 witness: the clamp of a training trial of AlphaCyc has just been made
C10_Witness ==
    /\ variant = "AlphaCyc" /\ train /\ cnt.lastOp = "Clamp"
    /\ ext["ECout"] = UnitVals("ECin", 3 * CycPerQtr)
    /\ ext["Output"] = UnitVals("ECin", 3 * CycPerQtr)

\* the variant clamps output-comparison layers in case 3 of its switch
HasTargetClamp == QtrClamps(variant) # << >>

----------------------------------------------------------------------------
(* Properties of MemStats, stated over the units rather than the counters *)

\* the units MemStats reads, split by their target and by the ECin cue
ReadUnits == 1..MemStatsLen
TrgOnUnits == {i \in ReadUnits : ms.units[i].trg >= ActHalf}
TrgOffUnits == ReadUnits \ TrgOnUnits
CmpUnits == {i \in TrgOnUnits : ms.units[i].inact < ActHalf}
\* target-on units of S that were off, target-off units that were on
Missed(S) == Cardinality({i \in S : ms.units[i].actm < ActHalf})
FalsePos == Cardinality({i \in TrgOffUnits : ms.units[i].actm > ActHalf})
\* k / n is a rate below, or exactly at, ss.MemThr
BelowThr(k, n) == n > 0 /\ k * ms.MemThr[2] < ms.MemThr[1] * n
AtThr(k, n) == n > 0 /\ k * ms.MemThr[2] = ms.MemThr[1] * n

\* C12: after a training call Mem is 1 iff the rate of missed target-on
\* units and the rate of false positives are both below MemThr, and 0
\* otherwise; after a test call with completion bits the same with the
\* missed rate taken over the completion bits; a rate exactly at MemThr
\* gives 0.
C12_MemScore ==
    ms.calls > 0 =>
        /\ ms.Mem \in {0, 1}
        /\ ms.train =>
              /\ ms.Mem = 1 <=>
                    /\ BelowThr(Missed(TrgOnUnits), Cardinality(TrgOnUnits))
                    /\ BelowThr(FalsePos, Cardinality(TrgOffUnits))
              /\ AtThr(Missed(TrgOnUnits), Cardinality(TrgOnUnits)) => ms.Mem = 0
        /\ (~ms.train /\ CmpUnits # {}) =>
              /\ ms.Mem = 1 <=>
                    /\ BelowThr(Missed(CmpUnits), Cardinality(CmpUnits))
                    /\ BelowThr(FalsePos, Cardinality(TrgOffUnits))
              /\ AtThr(Missed(CmpUnits), Cardinality(CmpUnits)) => ms.Mem = 0
        /\ AtThr(FalsePos, Cardinality(TrgOffUnits)) /\ (ms.train \/ CmpUnits # {})
              => ms.Mem = 0

\* a training call whose missed rate is exactly MemThr while no target-off
\* unit was on, scored 0 over a previous score of 1
C12_Witness ==
    /\ ms.calls > 0 /\ ms.train
    /\ AtThr(Missed(TrgOnUnits), Cardinality(TrgOnUnits))
    /\ BelowThr(FalsePos, Cardinality(TrgOffUnits))
    /\ ms.prev.Mem = 1 /\ ms.Mem = 0

\* C13: after a test call that found no completion bit (cmpN = 0) Mem is
\* the value it had before the call, and the three statistics fields hold
\* the values computed by this call.
C13_NoCompletionBits ==
    (ms.calls > 0 /\ ~ms.train /\ CmpUnits = {}) =>
        /\ ms.counts.cmpN = 0
        /\ ms.Mem = ms.prev.Mem
        /\ ms.TrgOnWasOffAll = Rat(Missed(TrgOnUnits), Cardinality(TrgOnUnits))
        /\ ms.TrgOnWasOffCmp = Rat(0, 1)
        /\ ms.TrgOffWasOn = Rat(FalsePos, Cardinality(TrgOffUnits))

\* a test call without completion bits that kept a score of 1 although
\* every target-off unit was on, and that replaced the false-positive rate
C13_Witness ==
    /\ ms.calls > 0 /\ ~ms.train /\ CmpUnits = {}
    /\ ms.prev.Mem = 1 /\ ms.Mem = 1
    /\ TrgOnUnits # {}
    /\ ms.TrgOffWasOn = Rat(1, 1) /\ ms.prev.TrgOffWasOn # ms.TrgOffWasOn

\* C14, as stated: MemStats classifies every unit of the Output layer, so
\* its counters trgOnN and trgOffN add up to the number of Output units.
C14_Coverage ==
    ms.calls > 0 => ms.counts.trgOnN + ms.counts.trgOffN = OutputUnits

----------------------------------------------------------------------------
(* Properties of the CHL pathway *)

\* a DWt pass has just run with learning on and the CHL rule selected
CHLPassed == chl.lastOp = "DWt" /\ chl.Learn /\ chl.CHL.On
\* the sending layer's plus-phase average against SAvgThr
AvgBelowThr == RLt(chl.ActPAvg, chl.CHL.SAvgThr)
AvgAtThr == chl.ActPAvg = chl.CHL.SAvgThr
PlainRule == ~chl.NormOn /\ ~chl.MomentumOn

\* the minus-phase activation of unit u under the selector
SelectedMinus(u) ==
    CASE chl.CHL.MinusQ1 -> u.ActQ1
      [] ~chl.CHL.MinusQ1 /\ chl.CHL.MinusQ2 -> u.ActQ2
      [] OTHER -> u.ActM

\* the delta of the formula, from the weight before the pass
FormulaDelta ==
    LET w == chl.prev.LWt
        sP == chl.sn.ActP
        rP == chl.rn.ActP
        sM == SelectedMinus(chl.sn)
        rM == SelectedMinus(chl.rn)
        cor == SAvgCor(chl)
        hebb == RMul(rP, RSub(RMul(sP, RSub(cor, w)), RMul(RSub(ROne, sP), w)))
        diff == RSub(RMul(rP, sP), RMul(rM, sM))
        err == RMul(diff, IF diff[1] > 0 THEN RSub(ROne, w) ELSE w)
    IN  RMul(chl.Lrate, RAdd(RMul(chl.CHL.Hebb, hebb), RMul(chl.CHL.Err, err)))

SynapseUntouched == chl.sy = chl.prev

\* C15: right after the parameters were updated (ConfigNet's Defaults and
\* sheets, or a later sheet, each ending in UpdateParams), for a Hebb in
\* [0, 1], Err is 1 - Hebb.
C15_ErrAfterUpdate ==
    (chl.lastOp \in {"ConfigNet", "ApplyParams"}
        /\ 0 <= chl.CHL.Hebb[1] /\ chl.CHL.Hebb[1] <= chl.CHL.Hebb[2]) =>
            chl.CHL.Err = <<chl.CHL.Hebb[2] - chl.CHL.Hebb[1], chl.CHL.Hebb[2]>>

\* a sheet has set Hebb to 0.2 and Err is 0.8
C15_Witness ==
    /\ chl.lastOp = "ApplyParams"
    /\ chl.CHL.Hebb = <<1, 5>> /\ chl.CHL.Err = <<4, 5>>

C17_HebbianSkip ==
    /\ (CHLPassed /\ AvgBelowThr) => SynapseUntouched
    /\ (CHLPassed /\ AvgAtThr /\ PlainRule) =>
          chl.sy.DWt = RAdd(chl.prev.DWt, FormulaDelta)

\* a skipped pass whose formula gives a delta that is not zero
C17_Witness ==
    /\ CHLPassed /\ AvgBelowThr
    /\ FormulaDelta # RZero
    /\ SynapseUntouched

\* C18: a DWt pass over a pathway whose Learn.Learn is false leaves the
\* synapse as it was, with CHL.On true or false.
C18_LearnOff ==
    (chl.lastOp = "DWt" /\ ~chl.Learn) => SynapseUntouched

\* a pass with Learn off over an active CHL pathway whose formula gives a
\* delta that is not zero
C18_Witness ==
    /\ chl.lastOp = "DWt" /\ ~chl.Learn /\ chl.CHL.On
    /\ ~AvgBelowThr /\ FormulaDelta # RZero
    /\ SynapseUntouched

\* C19: with normalization and momentum off, a CHL pass that is not skipped
\* adds Lrate * (Hebb * hebb + Err * err) to DWt, hebb and err computed from
\* the plus-phase activations, the minus-phase activations of the selector,
\* the correction factor and the linear weight; it changes nothing else of
\* the synapse.
C19_DeltaFormula ==
    (CHLPassed /\ ~AvgBelowThr /\ PlainRule) =>
        /\ chl.sy.DWt = RAdd(chl.prev.DWt, FormulaDelta)
        /\ chl.sy.LWt = chl.prev.LWt
        /\ chl.sy.Norm = chl.prev.Norm
        /\ chl.sy.Moment = chl.prev.Moment

\* a pass with the quarter-2 selector, on units whose ActQ2 differs from
\* their ActM, that added a delta
C19_Witness ==
    /\ CHLPassed /\ ~AvgBelowThr /\ PlainRule
    /\ ~chl.CHL.MinusQ1 /\ chl.CHL.MinusQ2
    /\ chl.sn.ActQ2 # chl.sn.ActM /\ chl.rn.ActQ2 # chl.rn.ActM
    /\ FormulaDelta # RZero
    /\ chl.sy.DWt = RAdd(chl.prev.DWt, FormulaDelta)

----------------------------------------------------------------------------
(* Properties of the correction factor *)

\* C21, as stated: for SAvgCor in [0, 1], SAvgThr >= 0 and an average in
\* [0, 1], the factor SAvgCor returns is finite and positive, and it is at
\* most 0.5 / SAvgThr.
C21_FactorBounded ==
    chl.lastOp = "SAvgCor" =>
        /\ chl.cor[2] > 0
        /\ chl.cor[1] > 0
        /\ chl.CHL.SAvgThr[1] > 0 =>
              ~RLt(RQuo(Rat(1, 2), chl.CHL.SAvgThr), chl.cor)

----------------------------------------------------------------------------
(* Further properties of the alpha-cycle *)

\* C22: a step changes the weights or the accumulated deltas of a pathway
\* only if it is the WtFmDWt step that opens the trial or the DWt pass after
\* the fourth quarter; the weight-scale assignments, the recomputations, the
\* cycles, the clamps, QuarterFinal and the statistics in between do not.
C22_ScalesLeaveWeights ==
    [][(wt' # wt \/ dwt' # dwt) =>
          \/ pc = "WtFmDWt" /\ cnt.lastOp = "call"
          \/ pc = "DWt" /\ cnt.qinc = 4]_vars

\* the second training trial has applied the deltas of the first, has
\* changed weight scales, recomputed and clamped, and CA3 -> CA1 holds the
\* weights of the update and no delta
C22_Witness ==
    /\ trialNo = 2 /\ train /\ cnt.lastOp = "Clamp"
    /\ wtScale # pre.wtScale
    /\ pre.dwt[ca1FmCa3] = {1} /\ wt[ca1FmCa3] = {1} /\ dwt[ca1FmCa3] = {}

\* the trial has ended: the variant has returned or has stopped in a panic
TrialEnded == pc \in {"return", "panic"}

\* C23, as stated: a trial of AlphaCyc, AlphaCycPreTrain or AlphaCycAE runs
\* CycPerQtr cycles in each quarter, a trial of AlphaCycRP 25/25/100/25 and
\* a trial of AlphaCycRPAE 25/50/75/25.
C23_CycleSchedules ==
    TrialEnded =>
        /\ variant \in {"AlphaCyc", "AlphaCycPreTrain", "AlphaCycAE"} =>
              cnt.cycles = <<CycPerQtr, CycPerQtr, CycPerQtr, CycPerQtr>>
        /\ variant = "AlphaCycRP" =>
              cnt.cycles = <<CycPerQtr, RPCycQ1, RPCycQ2, CycPerQtr>>
        /\ variant = "AlphaCycRPAE" =>
              cnt.cycles = <<CycPerQtr, RPAECycQ1, RPAECycQ2, CycPerQtr>>


----------------------------------------------------------------------------
(* Properties of the toolbar and the run methods *)

\* the quarters a thread's alpha-cycle has executed, in order
QuartersRun(th) == SelectSeq(th.log, LAMBDA op : op \in {"Q1", "Q2", "Q3", "Q4"})

\* the alpha-cycle of the thread has ended: it returned to the trial
\* function or it stopped in a panic
CycleEnded(th) == th.v # "none" /\ th.at \in {"check", "testcheck", "panic"}

\* C24, as stated: an alpha-cycle that has started executes all four
\* quarters and its post-trial steps (the restore of the weight scales, and
\* the DWt pass when training), whenever StopNow is set: every alpha-cycle
\* that has ended has run the four quarters in order, then the restore if
\* the variant has one, and last the DWt pass if it was a training trial.
C24_StopBetweenTrials ==
    \A t \in Threads :
        LET th == sim.th[t] IN
        CycleEnded(th) =>
            /\ QuartersRun(th) = <<"Q1", "Q2", "Q3", "Q4">>
            /\ Restores(th.v) =>
                  \E k \in 1..Len(th.log) :
                      th.log[k] = "Restore" /\ k > 4 /\ th.log[k - 1] = "Q4"
            /\ th.tr => th.log[Len(th.log)] = "DWt"


\* the threads that are inside an alpha-cycle
InAlphaCyc == {t \in Threads : sim.th[t].at = "trial"}

\* C25: whatever toolbar actions are taken and however the goroutines they
\* start are scheduled, at most one thread is inside an alpha-cycle.
C25_OneTrialAtATime == Cardinality(InAlphaCyc) <= 1

\* a goroutine is in the middle of an alpha-cycle while the goroutine of an
\* earlier run, which has cleared IsRunning, still exists
C25_Witness ==
    /\ sim.th[1].at = "exiting"
    /\ sim.th[2].at = "trial" /\ sim.th[2].i > 1
    /\ sim.IsRunning


RECURSIVE AlphaCycScales(_, _, _)
AlphaCycScales(q, tr, ws) ==
    IF q = 0
    THEN RunSetup(SetupOf("AlphaCyc", tr, Hiponly), 1,
                  [learn |-> learn, off |-> off, wtScale |-> ws, layTyp |-> layTyp,
                   dgwtscale |-> dgwtscale, dirty |-> dirty, ok |-> TRUE]).wtScale
    ELSE QtrScale("AlphaCyc", q, tr, AlphaCycScales(q - 1, tr, ws), ws[ca3FmDg].Rel)

\* C28, as stated: in every quarter of an AlphaCycRP trial, training or
\* test, EC->CA1 Abs, CA3->CA1 Abs and DG->CA3 Rel have the values they
\* have in the same quarter of an AlphaCyc trial of the same mode that is
\* called with the same scales.
C28_RPKeepsBaseScales ==
    (variant = "AlphaCycRP" /\ pc = "Cycle" /\ cyc < cycPerQtr) =>
        LET base == AlphaCycScales(qtr, train, pre.wtScale) IN
        /\ wtScale[ca1FmECin].Abs = base[ca1FmECin].Abs
        /\ wtScale[ca1FmCa3].Abs = base[ca1FmCa3].Abs
        /\ wtScale[ca3FmDg].Rel = base[ca3FmDg].Rel

\* C29, as stated: during every cycle of an AlphaCycPreTrain trial DG and
\* CA3 are off and the cortex layer is not off.
C29_PreTrainLayers ==
    (variant = "AlphaCycPreTrain" /\ pc = "Cycle" /\ cyc < cycPerQtr) =>
        /\ off["DG"]
        /\ off["CA3"]
        /\ ~off["Cortex"]

\* C30, as stated: in every variant MemStats is given the train flag of
\* the trial that calls it.
C30_StatsUseTrialMode ==
    (pc # "idle" /\ cnt.memStats > 0) => cnt.memArg = train


----------------------------------------------------------------------------
(* Properties settled last *)

\* a fraction n/d with d > 0 that lies in [0, 1]
InUnitInterval(x) == x[2] > 0 /\ x[1] >= 0 /\ x[1] <= x[2]

\* C31, as stated: after every MemStats call, training or test, each of
\* TrgOnWasOffAll, TrgOffWasOn and TrgOnWasOffCmp is its error count divided
\* by the size of its own population (trgOnN, trgOffN, cmpN), and so lies in
\* [0, 1], whenever that population is not empty.
C31_NormalisedRates ==
    ms.calls > 0 =>
        /\ ms.counts.trgOnN > 0 =>
              /\ ms.TrgOnWasOffAll = Rat(ms.counts.trgOnWasOffAll, ms.counts.trgOnN)
              /\ InUnitInterval(ms.TrgOnWasOffAll)
        /\ ms.counts.trgOffN > 0 =>
              /\ ms.TrgOffWasOn = Rat(ms.counts.trgOffWasOn, ms.counts.trgOffN)
              /\ InUnitInterval(ms.TrgOffWasOn)
        /\ ms.counts.cmpN > 0 =>
              /\ ms.TrgOnWasOffCmp = Rat(ms.counts.trgOnWasOffCmp, ms.counts.cmpN)
              /\ InUnitInterval(ms.TrgOnWasOffCmp)


\* C32: the mossy baseline never drifts. After any sequence of completed
\* trials, of any variants in any modes, the DG->CA3 WtScale.Rel is the value
\* it had before the first trial (the configured one), and the value each
\* trial read as its baseline was that same value: the reductions by MossyDel
\* and MossyDelTest are never compounded.
C32_MossyBaseline ==
    /\ pc = "idle" => wtScale[ca3FmDg].Rel = ParamRel(ca3FmDg)
    /\ trialNo > 0 => pre.wtScale[ca3FmDg].Rel = ParamRel(ca3FmDg)

\* C32 witness: the second trial has returned, after a first trial of another
\* variant, and the mossy scale is the configured one
C32_Witness ==
    /\ Returned /\ trialNo = 2
    /\ cnt.restore > 0
    /\ wtScale[ca3FmDg].Rel = Whole(4)


\* C33, as stated: the mossy fibers stay non-learning. The DG->CA3 pathway has
\* Learn.Learn false whenever a DWt pass runs, in every trial, so none of its
\* synapses ever holds a delta.
C33_MossyNonLearning ==
    /\ (pc = "DWt" /\ CallsDWt(variant, train)) => ~learn[ca3FmDg]
    /\ dwt[ca3FmDg] = {}


\* the pathways that learn in the DWt pass of variant v when v is the first
\* trial on the configured network
LearningSetAlone(v, tr) ==
    LET st0 == [learn |-> [p \in Prjns |-> p \notin ParamLearnOff],
                off |-> [l \in Layers |-> FALSE],
                wtScale |-> [p \in Prjns |-> [Abs |-> ParamAbs(p), Rel |-> ParamRel(p)]],
                layTyp |-> [l \in Layers |-> ConfigTyp(l)],
                dgwtscale |-> 0, dirty |-> FALSE, ok |-> TRUE]
    IN  {p \in Prjns : RunSetup(SetupOf(v, tr, Hiponly), 1, st0).learn[p]}

\* C34, as stated: the learning set is history-independent. The set of
\* pathways whose Learn flag is true when the DWt pass of a variant runs is the
\* set that variant learns with as the first trial on the configured network,
\* whatever variants and modes ran before it.
C34_LearningSetOfVariant ==
    (pc = "DWt" /\ CallsDWt(variant, train)) =>
        {p \in Prjns : learn[p]} = LearningSetAlone(variant, train)


\* C35, as stated: the deltas of two trials never pile up. A training trial
\* runs one WtFmDWt before its DWt pass, and when the DWt pass starts no
\* pathway still holds a delta of an earlier trial.
C35_NoDeltaPileUp ==
    (pc = "DWt" /\ CallsDWt(variant, train)) =>
        /\ cnt.wtFmDWt = 1
        /\ \A p \in Prjns : dwt[p] = {}


\* the difference of the plus-phase and the minus-phase co-activation
\* products of the synapse, and the error term ErrDWt gives for them from
\* the weight the pass found
CoProductDiff ==
    RSub(RMul(chl.rn.ActP, chl.sn.ActP),
         RMul(SelectedMinus(chl.rn), SelectedMinus(chl.sn)))
ErrTerm ==
    ErrDWt(chl.sn.ActP, SelectedMinus(chl.sn), chl.rn.ActP,
           SelectedMinus(chl.rn), chl.prev.LWt)
\* the sign of a fraction with a positive denominator
RSgn(x) == IF x[1] > 0 THEN 1 ELSE IF x[1] < 0 THEN -1 ELSE 0

\* C36, as stated: for a linear weight w in [0, 1] and activations in [0, 1],
\* the error term e has w + e in [0, 1]; e is 0 when the two co-activation
\* products are equal, and otherwise it has the sign of their difference.
C36_ErrSignOfDifference ==
    (CHLPassed /\ ~AvgBelowThr) =>
        LET w == chl.prev.LWt
            e == ErrTerm
        IN  /\ ~RLt(RAdd(w, e), RZero) /\ ~RLt(ROne, RAdd(w, e))
            /\ CoProductDiff = RZero => e = RZero
            /\ CoProductDiff # RZero => RSgn(e) = RSgn(CoProductDiff)

\* C36, amended: w + e is in [0, 1]; e is 0 when the products are equal;
\* otherwise e has the sign of their difference or is 0, and it is 0
\* exactly when no room is left in the direction of the difference (w = 1
\* and the difference positive, or w = 0 and the difference negative).
C36_ErrBounded ==
    (CHLPassed /\ ~AvgBelowThr) =>
        LET w == chl.prev.LWt
            e == ErrTerm
            d == CoProductDiff
        IN  /\ ~RLt(RAdd(w, e), RZero) /\ ~RLt(ROne, RAdd(w, e))
            /\ d = RZero => e = RZero
            /\ d # RZero =>
                  /\ RSgn(e) \in {0, RSgn(d)}
                  /\ e = RZero <=> \/ RSgn(d) = 1 /\ w = ROne
                                   \/ RSgn(d) = -1 /\ w = RZero

\* C36 witness: a pass over a synapse of weight 1/2 whose plus-phase product
\* exceeds the minus-phase product; the error term is half the difference
C36_Witness ==
    /\ CHLPassed /\ ~AvgBelowThr
    /\ chl.prev.LWt = Rat(1, 2)
    /\ RSgn(CoProductDiff) = 1
    /\ ErrTerm = RMul(Rat(1, 2), CoProductDiff)
    /\ RSgn(ErrTerm) = 1


\* C37, as stated: the variants match the built topology. On the network
\* ConfigNet builds, no trial that a driver starts (TrainTrial, RestudyTrial,
\* RetrievalPracticeTrial, PreTrainTrial, AETrainTrial, TestTrial,
\* TestTrialAE) fails a lookup by name.
C37_VariantsMatchTopology ==
    /\ ~sim.crashed
    /\ \A t \in Threads :
          sim.th[t].v \in Variants => ~SetupPanics(sim.th[t].v, sim.th[t].tr)


\* C38, as stated: no partial effects on a fatal lookup. When a variant
\* aborts because a name it looks up is missing, the network is as it was
\* before the call: the pending deltas have not been applied, and no Learn
\* flag, layer Off flag or weight scale has changed.
C38_NoPartialEffects ==
    pc = "panic" =>
        /\ wt = pre.wt /\ dwt = pre.dwt
        /\ learn = pre.learn
        /\ off = pre.off
        /\ wtScale = pre.wtScale


\* C39, as stated: a stop request is never lost. After a Stop() call made
\* while IsRunning is true, under any interleaving of the GUI thread and the
\* goroutine of the run method, the run loop calls its trial function at most
\* once more before it exits: the trial in progress plus one further trial.
C39_StopNeverLost ==
    sim.req => sim.after <= 1


====
